---------------------------- MODULE Spec2Model ----------------------------
(***************************************************************************)
(* Itinerary agent: the itinerary validator (validate.ts), the itinerary   *)
(* schema gate (schema.ts) and the generate / validate / repair loops of   *)
(* planFromIntake and main (index.ts).                                     *)
(*                                                                         *)
(* Strings are TLC strings; the JavaScript string methods the code uses    *)
(* (trim, split, join, includes, startsWith, toLowerCase) are operators    *)
(* computed character by character.                                        *)
(***************************************************************************)
EXTENDS Integers, Sequences, FiniteSets, TLC

(***************************************************************************)
(* JavaScript string and array primitives                                  *)
(***************************************************************************)

\* String.prototype.trim strips white space at both ends.
IsSpace(c) == c \in {" ", "\t", "\n", "\r"}

RECURSIVE TrimStart(_)
TrimStart(s) ==
  IF Len(s) > 0 /\ IsSpace(SubSeq(s, 1, 1)) THEN TrimStart(Tail(s)) ELSE s

RECURSIVE TrimEnd(_)
TrimEnd(s) ==
  IF Len(s) > 0 /\ IsSpace(SubSeq(s, Len(s), Len(s)))
  THEN TrimEnd(SubSeq(s, 1, Len(s) - 1))
  ELSE s

Trim(s) == TrimEnd(TrimStart(s))

\* String.prototype.indexOf, 1-based; 0 when sub does not occur.
IndexOf(s, sub) ==
  LET hits == {k \in 1..(Len(s) - Len(sub) + 1) : SubSeq(s, k, k + Len(sub) - 1) = sub}
  IN IF hits = {} THEN 0 ELSE CHOOSE k \in hits : \A j \in hits : k <= j

Includes(s, sub) == IndexOf(s, sub) # 0

StartsWith(s, prefix) ==
  Len(s) >= Len(prefix) /\ SubSeq(s, 1, Len(prefix)) = prefix

\* String.prototype.split with a non-empty separator.
RECURSIVE Split(_, _)
Split(s, sep) ==
  LET k == IndexOf(s, sep)
  IN IF k = 0
     THEN <<s>>
     ELSE <<SubSeq(s, 1, k - 1)>> \o Split(SubSeq(s, k + Len(sep), Len(s)), sep)

\* Array.prototype.join
RECURSIVE Join(_, _)
Join(parts, sep) ==
  IF parts = <<>> THEN ""
  ELSE IF Len(parts) = 1 THEN parts[1]
  ELSE parts[1] \o sep \o Join(Tail(parts), sep)

\* The elements of a sequence.
Range(s) == {s[k] : k \in 1..Len(s)}

Upper == "ABCDEFGHIJKLMNOPQRSTUVWXYZ"
Lower == "abcdefghijklmnopqrstuvwxyz"

LowerOf == [k \in 1..Len(Upper) |-> SubSeq(Lower, k, k)]
UpperAt == [k \in 1..Len(Upper) |-> SubSeq(Upper, k, k)]

\* The lowercase letter of each uppercase letter.
LowerMap == [u \in Range(UpperAt) |-> LowerOf[CHOOSE k \in 1..Len(Upper) : UpperAt[k] = u]]

LowerChar(c) == IF c \in DOMAIN LowerMap THEN LowerMap[c] ELSE c

\* String.prototype.toLowerCase
RECURSIVE ToLowerCase(_)
ToLowerCase(s) ==
  IF Len(s) = 0 THEN "" ELSE LowerChar(SubSeq(s, 1, 1)) \o ToLowerCase(Tail(s))

\* Concatenation of a sequence of sequences (the pushes of one loop, in order).
RECURSIVE ConcatAll(_)
ConcatAll(ss) == IF ss = <<>> THEN <<>> ELSE Head(ss) \o ConcatAll(Tail(ss))

\* Array.prototype.sort((a, b) => a - b) on a copy: insertion sort, ascending.
RECURSIVE Insert(_, _)
Insert(x, sorted) ==
  IF sorted = <<>> THEN <<x>>
  ELSE IF x <= Head(sorted) THEN <<x>> \o sorted
  ELSE <<Head(sorted)>> \o Insert(x, Tail(sorted))

RECURSIVE SortAscending(_)
SortAscending(s) ==
  IF s = <<>> THEN <<>> ELSE Insert(Head(s), SortAscending(Tail(s)))

(***************************************************************************)
(* validate.ts                                                             *)
(***************************************************************************)

\* "string | null": the empty sequence is null, <<s>> is the string s.
Null == <<>>

isTimeRange(s) == Includes(s, " - ")

extractRestaurantNameFromMeal(meal) ==
  LET parts == Split(meal, ":")
  IN IF Len(parts) < 2 THEN Null
     ELSE LET afterColon == Trim(Join(Tail(parts), ":"))
              rest == Trim(Split(afterColon, " - ")[1])
          IN IF rest = "" THEN Null ELSE <<rest>>

vegHints ==
  <<"veg", "vegetarian", "vegan", "plant", "tofu", "paneer", "lentil", "chickpea", "vegetable">>

\* Day count and numbering (validate.ts 32-39)
DayCountViolations(trip, itinerary) ==
  IF Len(itinerary.days) # trip.tripLengthDays
  THEN <<"days.length=" \o ToString(Len(itinerary.days))
          \o " must equal tripLengthDays=" \o ToString(trip.tripLengthDays)>>
  ELSE <<>>

\* Faulty variant: the day numbers are compared by position without sorting.
DayNumberViolationsUnsorted(trip, itinerary) ==
  ConcatAll([k \in 1..trip.tripLengthDays |->
    IF k > Len(itinerary.days) \/ itinerary.days[k].day # k
    THEN <<"Missing or wrong day number: expected day " \o ToString(k)>>
    ELSE <<>>])

DayNumberViolations(trip, itinerary) ==
  LET dayNums == SortAscending([k \in 1..Len(itinerary.days) |-> itinerary.days[k].day])
  IN ConcatAll([k \in 1..trip.tripLengthDays |->
       IF k > Len(dayNums) \/ dayNums[k] # k
       THEN <<"Missing or wrong day number: expected day " \o ToString(k)>>
       ELSE <<>>])

\* Pace rules: blocks per day (validate.ts 41-51)
PaceOk(pace, blocks) ==
  \/ (pace = "relaxed" /\ blocks >= 2 /\ blocks <= 3)
  \/ (pace = "balanced" /\ blocks >= 3 /\ blocks <= 4)
  \/ (pace = "packed" /\ blocks >= 4 /\ blocks <= 6)

PaceViolations(trip, itinerary) ==
  ConcatAll([k \in 1..Len(itinerary.days) |->
    LET day == itinerary.days[k]
        blocks == Len(day.blocks)
    IN IF ~PaceOk(trip.pace, blocks)
       THEN <<"Day " \o ToString(day.day) \o " blocks=" \o ToString(blocks)
               \o " violates pace=" \o trip.pace>>
       ELSE <<>>])

\* Notes: at least 2 per day (validate.ts 53-56)
NotesViolations(itinerary) ==
  ConcatAll([k \in 1..Len(itinerary.days) |->
    LET day == itinerary.days[k]
    IN IF Len(day.notes) < 2
       THEN <<"Day " \o ToString(day.day) \o " notes must have at least 2 items">>
       ELSE <<>>])

\* Faulty variant: only the first failed check of a block is reported.
BlockViolationsOfFirstFailure(day, b, allowedAttractionSet) ==
  IF b.title \notin allowedAttractionSet
  THEN <<"Invalid attraction in blocks: \"" \o b.title \o "\"">>
  ELSE IF ~isTimeRange(b.time)
  THEN <<"Day " \o ToString(day.day) \o " block time not a range: \"" \o b.time \o "\"">>
  ELSE IF Includes(ToLowerCase(b.title), "lunch") \/ Includes(ToLowerCase(b.title), "dinner")
  THEN <<"Block title includes dining text (Option B): \"" \o b.title \o "\"">>
  ELSE <<>>

\* Blocks: attraction-only + allowed list + time range (validate.ts 58-69)
BlockViolationsOf(day, b, allowedAttractionSet) ==
  (IF ~isTimeRange(b.time)
   THEN <<"Day " \o ToString(day.day) \o " block time not a range: \"" \o b.time \o "\"">>
   ELSE <<>>)
  \o (IF b.title \notin allowedAttractionSet
      THEN <<"Invalid attraction in blocks: \"" \o b.title \o "\"">>
      ELSE <<>>)
  \o (IF Includes(ToLowerCase(b.title), "lunch") \/ Includes(ToLowerCase(b.title), "dinner")
      THEN <<"Block title includes dining text (Option B): \"" \o b.title \o "\"">>
      ELSE <<>>)

\* Faulty variant: within a day a title is checked at its first block only.
BlockViolationsFirstOnly(itinerary, allowedAttractions) ==
  LET allowedAttractionSet == Range(allowedAttractions)
  IN ConcatAll([k \in 1..Len(itinerary.days) |->
       LET day == itinerary.days[k]
       IN ConcatAll([j \in 1..Len(day.blocks) |->
            IF \E h \in 1..(j - 1) : day.blocks[h].title = day.blocks[j].title
            THEN <<>>
            ELSE BlockViolationsOf(day, day.blocks[j], allowedAttractionSet)])])

BlockViolations(itinerary, allowedAttractions) ==
  LET allowedAttractionSet == Range(allowedAttractions)
  IN ConcatAll([k \in 1..Len(itinerary.days) |->
       LET day == itinerary.days[k]
       IN ConcatAll([j \in 1..Len(day.blocks) |->
            BlockViolationsOf(day, day.blocks[j], allowedAttractionSet)])])

\* Meals: Lunch: and Dinner:, allowed restaurants, vegetarian hint (validate.ts 71-92)
MealViolationsOf(trip, meal, allowedRestaurantSet) ==
  LET rest == extractRestaurantNameFromMeal(meal)
  IN (IF rest = Null
      THEN <<"Meal format invalid: \"" \o meal \o "\"">>
      ELSE IF rest[1] \notin allowedRestaurantSet
      THEN <<"Invalid restaurant in meals: \"" \o rest[1] \o "\"">>
      ELSE <<>>)
     \o (IF "vegetarian" \in Range(trip.constraints)
            /\ LET lower == ToLowerCase(meal)
               IN ~(\E h \in Range(vegHints) : Includes(lower, h))
         THEN <<"Meal may not clearly indicate vegetarian dish: \"" \o meal \o "\"">>
         ELSE <<>>)

MealViolations(trip, itinerary, allowedRestaurants) ==
  LET allowedRestaurantSet == Range(allowedRestaurants)
  IN ConcatAll([k \in 1..Len(itinerary.days) |->
       LET day == itinerary.days[k]
           hasLunch == \E m \in Range(day.meals) : StartsWith(m, "Lunch:")
           hasDinner == \E m \in Range(day.meals) : StartsWith(m, "Dinner:")
       IN (IF ~hasLunch
           THEN <<"Day " \o ToString(day.day) \o " missing Lunch: in meals">>
           ELSE <<>>)
          \o (IF ~hasDinner
              THEN <<"Day " \o ToString(day.day) \o " missing Dinner: in meals">>
              ELSE <<>>)
          \o ConcatAll([j \in 1..Len(day.meals) |->
               MealViolationsOf(trip, day.meals[j], allowedRestaurantSet)])])

\* Rain backups: allowed list only (validate.ts 94-98)
RainViolations(itinerary, allowedIndoorBackups) ==
  ConcatAll([k \in 1..Len(itinerary.rainBackups) |->
    IF itinerary.rainBackups[k] \notin Range(allowedIndoorBackups)
    THEN <<"Invalid rain backup (not in allowedIndoorBackups): \""
            \o itinerary.rainBackups[k] \o "\"">>
    ELSE <<>>])

validateItineraryProduction(trip, itinerary, allowedAttractions, allowedRestaurants, allowedIndoorBackups) ==
  LET violations ==
        DayCountViolations(trip, itinerary)
        \o DayNumberViolations(trip, itinerary)
        \o PaceViolations(trip, itinerary)
        \o NotesViolations(itinerary)
        \o BlockViolations(itinerary, allowedAttractions)
        \o MealViolations(trip, itinerary, allowedRestaurants)
        \o RainViolations(itinerary, allowedIndoorBackups)
  IN [ok |-> violations = <<>>, violations |-> violations]

(***************************************************************************)
(* schema.ts: the itinerary schema gate.  A parsed JSON object is a record *)
(* whose domain holds the keys present in the text; in the objects drawn   *)
(* here a present summary is a string and a present days is an array.      *)
(***************************************************************************)

Has(obj, key) == key \in DOMAIN obj

\* DayBlockSchema: time and title are strings of length >= 1
DayBlockSchemaOk(b) ==
  /\ Has(b, "time") /\ Len(b.time) >= 1
  /\ Has(b, "title") /\ Len(b.title) >= 1

\* DayPlanSchema: day int >= 1, theme min 1, blocks min 2, meals min 2
DayPlanSchemaOk(d) ==
  /\ Has(d, "day") /\ d.day >= 1
  /\ Has(d, "theme") /\ Len(d.theme) >= 1
  /\ Has(d, "blocks") /\ Len(d.blocks) >= 2
  /\ \A j \in 1..Len(d.blocks) : DayBlockSchemaOk(d.blocks[j])
  /\ Has(d, "meals") /\ Len(d.meals) >= 2

\* ItinerarySchema: summary min 1, days min 1
ItinerarySchemaOk(obj) ==
  /\ Has(obj, "summary") /\ Len(obj.summary) >= 1
  /\ Has(obj, "days") /\ Len(obj.days) >= 1
  /\ \A k \in 1..Len(obj.days) : DayPlanSchemaOk(obj.days[k])

\* The value ItinerarySchema.parse returns: the known keys, absent arrays defaulted to [].
DayPlanSchemaParse(d) ==
  [day |-> d.day,
   theme |-> d.theme,
   blocks |-> [j \in 1..Len(d.blocks) |-> [time |-> d.blocks[j].time, title |-> d.blocks[j].title]],
   meals |-> d.meals,
   notes |-> IF Has(d, "notes") THEN d.notes ELSE <<>>]

ItinerarySchemaParse(obj) ==
  [summary |-> obj.summary,
   days |-> [k \in 1..Len(obj.days) |-> DayPlanSchemaParse(obj.days[k])],
   mustBook |-> IF Has(obj, "mustBook") THEN obj.mustBook ELSE <<>>,
   rainBackups |-> IF Has(obj, "rainBackups") THEN obj.rainBackups ELSE <<>>]

(***************************************************************************)
(* index.ts (planFromIntake.ts part): shape check and UI conversion        *)
(***************************************************************************)

\* typeof obj.summary === "string" && Array.isArray(obj.days)
looksLikeItinerary(obj) == Has(obj, "summary") /\ Has(obj, "days")

\* meals.find(m => m.toLowerCase().startsWith(prefix)): <<m>> or undefined (<<>>)
FindMeal(meals, prefix) ==
  LET hits == {j \in 1..Len(meals) : StartsWith(ToLowerCase(meals[j]), prefix)}
  IN IF hits = {} THEN <<>> ELSE <<meals[CHOOSE j \in hits : \A h \in hits : j <= h]>>

\* meal.replace(/^Lunch:\s*/i, "") then split(" - ").map(trim), destructured to
\* [place, dishIdea]; dishIdea is undefined (<<>>) when the text has no " - ".
MealItem(meal, label, time) ==
  LET rest == TrimStart(SubSeq(meal, Len(label) + 2, Len(meal)))
      parts == Split(rest, " - ")
  IN [kind |-> "meal", time |-> time, mealType |-> label,
      place |-> Trim(parts[1]),
      dishIdea |-> IF Len(parts) >= 2 THEN <<Trim(parts[2])>> ELSE <<>>]

toTimelineDay(day) ==
  LET activities == [j \in 1..Len(day.blocks) |->
                       [kind |-> "activity", time |-> day.blocks[j].time, title |-> day.blocks[j].title]]
      lunch == FindMeal(day.meals, "lunch:")
      dinner == FindMeal(day.meals, "dinner:")
      insertAt == IF Len(activities) >= 2 THEN 1 ELSE Len(activities)
      withLunch == IF lunch = <<>> THEN activities
                   ELSE SubSeq(activities, 1, insertAt)
                        \o <<MealItem(lunch[1], "Lunch", "12:15 PM - 01:15 PM")>>
                        \o SubSeq(activities, insertAt + 1, Len(activities))
      withDinner == IF dinner = <<>> THEN withLunch
                    ELSE withLunch \o <<MealItem(dinner[1], "Dinner", "06:30 PM - 08:00 PM")>>
  IN [day |-> day.day, theme |-> day.theme, timeline |-> withDinner, notes |-> day.notes]

toUiItinerary(itinerary) ==
  [summary |-> itinerary.summary,
   days |-> [k \in 1..Len(itinerary.days) |-> toTimelineDay(itinerary.days[k])],
   mustBook |-> itinerary.mustBook,
   rainBackups |-> itinerary.rainBackups]

(***************************************************************************)
(* tools/buildCandidates.ts: the merge of the extracted batches.           *)
(***************************************************************************)

RestaurantCandidateCap == 40
AttractionCandidateCap == 60
IndoorCandidateCap == 30

RECURSIVE dedupeFrom(_, _, _)
dedupeFrom(cands, seen, out) ==
  IF cands = <<>> THEN out
  ELSE LET c == Head(cands)
           key == ToLowerCase(Trim(c.name))
       IN IF key = "" \/ key \in seen
          THEN dedupeFrom(Tail(cands), seen, out)
          ELSE dedupeFrom(Tail(cands), seen \cup {key}, Append(out, c))

\* Faulty variants: no candidate is dropped for its name; the names are
\* compared as spelled.
dedupeNothing(cands) == cands
RECURSIVE dedupeExactFrom(_, _, _)
dedupeExactFrom(cands, seen, out) ==
  IF cands = <<>> THEN out
  ELSE LET c == Head(cands)
       IN IF c.name \in seen
          THEN dedupeExactFrom(Tail(cands), seen, out)
          ELSE dedupeExactFrom(Tail(cands), seen \cup {c.name}, Append(out, c))
dedupeExact(cands) == dedupeExactFrom(cands, {}, <<>>)

dedupe(cands) == dedupeFrom(cands, {}, <<>>)

\* arr.slice(0, n)
cap(arr, n) == SubSeq(arr, 1, IF Len(arr) < n THEN Len(arr) ELSE n)

\* all.filter((c) => c.category === category)
OfCategory(cands, category) ==
  LET Matches(c) == c.category = category
  IN SelectSeq(cands, Matches)

\* buildCandidatesForCity from the seven extracted batches on (lines 116-133).
mergeCandidates(bs) ==
  LET all == dedupe(ConcatAll(bs))
  IN cap(OfCategory(all, "restaurant"), RestaurantCandidateCap)
       \o cap(OfCategory(all, "attraction"), AttractionCandidateCap)
       \o cap(OfCategory(all, "indoor_backup"), IndoorCandidateCap)

(***************************************************************************)
(* index.ts: the projection of the candidates to the allowed lists.        *)
(***************************************************************************)

AllowedAttractionCap == 60
AllowedRestaurantCap == 40
AllowedIndoorCap == 30

\* arr.length > n ? arr.slice(0, n) : arr
capList(arr, n) == IF Len(arr) > n THEN SubSeq(arr, 1, n) ELSE arr

\* [...new Set(arr.map((s) => s.trim()).filter(Boolean))]: insertion order, exact equality
RECURSIVE uniqueFrom(_, _)
uniqueFrom(arr, out) ==
  IF arr = <<>> THEN out
  ELSE LET t == Trim(Head(arr))
       IN IF t = "" \/ t \in Range(out)
          THEN uniqueFrom(Tail(arr), out)
          ELSE uniqueFrom(Tail(arr), Append(out, t))

unique(arr) == uniqueFrom(arr, <<>>)

\* Faulty variant: the category is not looked at.
NamesOfAnyCategory(cands, category) == [k \in 1..Len(cands) |-> cands[k].name]

\* candidates.filter(c => c.category === category).map(c => c.name)
NamesOf(cands, category) ==
  LET matching == OfCategory(cands, category)
  IN [k \in 1..Len(matching) |-> matching[k].name]

allowedListsFromCandidates(cands) ==
  [allowedAttractions |-> capList(unique(NamesOf(cands, "attraction")), AllowedAttractionCap),
   allowedRestaurants |-> capList(unique(NamesOf(cands, "restaurant")), AllowedRestaurantCap),
   allowedIndoorBackups |-> capList(unique(NamesOf(cands, "indoor_backup")), AllowedIndoorCap)]

(***************************************************************************)
(* The runs of planFromIntake and main (index.ts).                         *)
(*                                                                         *)
(* A run is one asynchronous task; it is suspended at each awaited call.   *)
(* An action is the synchronous code between two awaits: it consumes the   *)
(* answer of the call the run waits for and runs up to the next call, the  *)
(* return or the throw.  A text answer either holds a balanced JSON object *)
(* (extractFirstJsonObject succeeds and yields the object) or it does not  *)
(* (parseJsonObjectSafe then awaits fixJsonOnly once).                     *)
(***************************************************************************)

VARIABLES
  entry,          \* "planFromIntake" | "main" | "validate" (the validator called alone)
  pc,             \* the awaited call, or "returned" / "threw"
  resume,         \* while fixJsonOnly is awaited: the call whose text is being repaired
  trip,           \* TripRequest
  allowed,        \* allowedAttractions, allowedRestaurants, allowedIndoorBackups
  itinerary,      \* let itinerary
  validation,     \* let validation
  i,              \* the loop counter of planFromIntake
  calls,          \* number of calls made so far, per collaborator and of the validator
  reviseArgs,     \* the arguments of the latest reviseItineraryJson call
  validated,      \* the itinerary given to the latest validator call
  lastObj,        \* the object the latest answer was parsed to (itObj, revisedObj, ...)
  result,         \* the value returned (planFromIntake) or printed (main)
  error,          \* what was thrown
  failed,         \* buildCandidatesForCity: the calls of the current Promise.all that threw
  batches,        \* buildCandidatesForCity: the seven extracted batches, in merge order
  candidates,     \* the candidates buildCandidatesForCity returned
  response        \* POST /api/plan: the responses sent so far

\* The state of the components that run outside the planning loop.
VARIABLES
  raw,            \* parseJsonObjectSafe / extractFirstJsonSlice: the text given
  fixed,          \* parseJsonObjectSafe: the text fixJsonOnly answered, once it has
  map,            \* TtlCache: key -> { value, expiresAt }
  now,            \* Date.now()
  lastSet,        \* per key, the arguments and time of the latest set call
  got,            \* the key and the result of the latest call, when it was a get
  places,         \* resolvePlacesMedia: the deduplicated place names
  concurrency,    \* resolvePlacesMedia: the number of workers
  idx,            \* resolvePlacesMedia: the shared cursor
  workers,        \* per worker: where it is and the place it holds
  out,            \* resolvePlacesMedia: the names with a media entry
  attempts,       \* per position of places: the workers that took it
  settled,        \* Promise.all: the positions of the settled calls, in completion order
  slots,          \* Promise.all: the values array
  found           \* buildCandidatesForCity: the destructured search results

aux ==
  <<raw, fixed, map, now, lastSet, got, places, concurrency, idx, workers, out,
    attempts, settled, slots, found>>

parseVars == <<raw, fixed>>
cacheVars == <<map, now, lastSet, got>>
poolVars == <<places, concurrency, idx, workers, out, attempts>>
orderVars == <<settled, slots, found>>

\* Each of those components before it is started.
ParseIdle == raw = "" /\ fixed = <<>>
CacheIdle == map = <<>> /\ now = 0 /\ lastSet = <<>> /\ got = <<>>
PoolIdle ==
  /\ places = <<>>
  /\ concurrency = 0
  /\ idx = 0
  /\ workers = <<>>
  /\ out = {}
  /\ attempts = <<>>
OrderIdle == settled = <<>> /\ slots = <<>> /\ found = <<>>

AuxIdle == ParseIdle /\ CacheIdle /\ PoolIdle /\ OrderIdle

vars ==
  <<entry, pc, resume, trip, allowed, itinerary, validation, i, calls, reviseArgs,
    validated, lastObj, result, error, failed, batches, candidates, response, aux>>

MaxTripDays == 2
RepairBudget == 2
ScoreThreshold == 90

Paces == {"relaxed", "balanced", "packed"}

AllowedLists ==
  { [allowedAttractions |-> <<"Art Institute", "Millennium Park", "Navy Pier">>,
     allowedRestaurants |-> <<"Green Table", "Veggie House">>,
     allowedIndoorBackups |-> <<"Field Museum">>],
    [allowedAttractions |-> <<"Art Institute", "Millennium Park">>,
     allowedRestaurants |-> <<"Green Table">>,
     allowedIndoorBackups |-> <<>>] }

AgentTrips ==
  { [tripLengthDays |-> n, pace |-> p, constraints |-> c] :
      n \in 1..MaxTripDays, p \in {"relaxed", "balanced"}, c \in {<<>>, <<"vegetarian">>} }

\* The objects a generation or repair answer may hold.
Blk(title) == [time |-> "09:00 AM - 11:00 AM", title |-> title]

VegMeals ==
  <<"Lunch: Green Table - Tofu Banh Mi (Vegetarian)", "Dinner: Green Table - Paneer Tikka (Vegetarian)">>

DayObj(n, blocks, meals) ==
  [day |-> n, theme |-> "Downtown", blocks |-> blocks, meals |-> meals,
   notes |-> <<"Book ahead", "Bring a jacket">>]

ThreeBlocks == <<Blk("Art Institute"), Blk("Millennium Park"), Blk("Art Institute")>>

GoodObj(n) ==
  [summary |-> "A city trip", days |-> [k \in 1..n |-> DayObj(k, ThreeBlocks, VegMeals)]]

TwoBlockObj ==
  [summary |-> "A city trip",
   days |-> <<DayObj(1, <<Blk("Art Institute"), Blk("Millennium Park")>>, VegMeals)>>,
   rainBackups |-> <<"Field Museum">>]

BadAttractionObj ==
  [summary |-> "A city trip",
   days |-> <<DayObj(1, <<Blk("Art Institute"), Blk("Sky Tower"), Blk("Sky Tower")>>, VegMeals)>>]

NonVegObj ==
  [summary |-> "A city trip",
   days |-> <<DayObj(1, ThreeBlocks, <<"Lunch: Green Table - Soup", "Dinner: Green Table - Pasta">>)>>]

\* itinerary-shaped, but a day has one block only (fewer than any pace allows)
OneBlockObj ==
  [summary |-> "A city trip", days |-> <<DayObj(1, <<Blk("Art Institute")>>, VegMeals)>>]

\* itinerary-shaped, but a day has one meal only
OneMealObj ==
  [summary |-> "A city trip",
   days |-> <<DayObj(1, ThreeBlocks, <<"Lunch: Green Table - Tofu Banh Mi (Vegetarian)">>)>>]

\* partial objects: not itinerary-shaped
NoDaysObj == [summary |-> "A city trip"]
NoSummaryObj == [days |-> <<DayObj(1, ThreeBlocks, VegMeals)>>]

ItineraryObjs ==
  {GoodObj(n) : n \in 1..MaxTripDays}
    \cup {TwoBlockObj, BadAttractionObj, NonVegObj, OneBlockObj, OneMealObj, NoDaysObj, NoSummaryObj}

\* The objects an evaluator answer may hold.
EvalObjs ==
  { [score |-> 95, fixes |-> <<"Add a museum">>],
    [score |-> 90, fixes |-> <<"Add a museum">>],
    [score |-> 60, fixes |-> <<"Add a museum">>],
    [score |-> 60, fixes |-> <<>>],
    [fixes |-> <<"Add a museum">>],
    [comment |-> "fine"] }

NoItinerary == [summary |-> "", days |-> <<>>, mustBook |-> <<>>, rainBackups |-> <<>>]
NoValidation == [ok |-> FALSE, violations |-> <<>>]
NoArgs == [itinerary |-> NoItinerary, fixes |-> <<>>, violations |-> Null]
NoResult == [itinerary |-> NoItinerary]
NoObj == [none |-> TRUE]
NoCalls == [generate |-> 0, revise |-> 0, validate |-> 0, fixJson |-> 0, evaluate |-> 0]

Ended == {"returned", "threw"}
AwaitedCalls == {"generate", "revise", "revise1", "schemaFix1", "evaluate", "revise2", "schemaFix2"}

InitRun(entries) ==
  /\ entry \in entries
  /\ pc = "candidates"
  /\ resume = "none"
  /\ trip \in AgentTrips
  /\ allowed \in AllowedLists
  /\ itinerary = NoItinerary
  /\ validation = NoValidation
  /\ i = 0
  /\ calls = NoCalls
  /\ reviseArgs = NoArgs
  /\ validated = NoItinerary
  /\ lastObj = NoObj
  /\ result = NoResult
  /\ error = "none"
  /\ failed = {}
  /\ batches = <<>>
  /\ candidates = <<>>
  /\ response = <<>>
  /\ AuxIdle

\* The validator as the runs call it: with the run's trip and allowed lists.
Validate(it) ==
  validateItineraryProduction(trip, it, allowed.allowedAttractions,
                              allowed.allowedRestaurants, allowed.allowedIndoorBackups)

\* The awaited call `stage` has yielded a parsed object, directly or through fixJsonOnly.
Parsed(stage) == pc = stage \/ (pc = "fixJson" /\ resume = stage)

\* An exception leaves the run: planFromIntake rejects, main exits with status 1.
Throw(kind) ==
  /\ pc' = "threw"
  /\ error' = kind
  /\ resume' = "none"
  /\ UNCHANGED <<aux, failed, batches, candidates, response, entry, trip, allowed, itinerary, validation, i, calls, reviseArgs, validated, result>>

StrictFixes == <<"Fix all violations strictly using allowed lists and Option B rules.">>

SchemaFixFixes1 ==
  <<"Return a FULL Itinerary JSON object (not partial).",
    "Must include: summary (string) and days (array). Never omit them.",
    "Fix all violations strictly using allowed lists and Option B rules.">>

SchemaFixFixes2 ==
  <<"Return a FULL Itinerary JSON object (not partial).",
    "Must include: summary (string) and days (array). Never omit them.",
    "Apply the evaluator fixes strictly using allowed lists only.">>

\* buildCandidatesForCity rejects: nothing catches it.
CandidatesFail ==
  /\ pc = "candidates"
  /\ entry \in {"planFromIntake", "main"}
  /\ Throw("candidates")
  /\ UNCHANGED lastObj

\* buildCandidatesForCity resolves; the allowed lists are projected and the
\* generation call is made.
CandidatesBuilt ==
  /\ pc = "candidates"
  /\ entry \in {"planFromIntake", "main"}
  /\ pc' = "generate"
  /\ calls' = [calls EXCEPT !.generate = @ + 1]
  /\ UNCHANGED <<aux, failed, batches, candidates, response, entry, resume, trip, allowed, itinerary, validation, i, reviseArgs, validated, lastObj, result, error>>

\* The awaited model call (or fixJsonOnly) rejects.
CallRejects ==
  /\ pc \in AwaitedCalls \cup {"fixJson"}
  /\ Throw("reject")
  /\ UNCHANGED lastObj

\* The answer holds no balanced JSON object: parseJsonObjectSafe awaits fixJsonOnly.
NeedsJsonFix ==
  /\ pc \in AwaitedCalls
  /\ pc' = "fixJson"
  /\ resume' = pc
  /\ calls' = [calls EXCEPT !.fixJson = @ + 1]
  /\ UNCHANGED <<aux, failed, batches, candidates, response, entry, trip, allowed, itinerary, validation, i, reviseArgs, validated, lastObj, result, error>>

\* The repaired text holds no balanced JSON object either: the error propagates.
JsonFixFails ==
  /\ pc = "fixJson"
  /\ Throw("json")
  /\ UNCHANGED lastObj

(***************************************************************************)
(* planFromIntake                                                          *)
(***************************************************************************)

\* Faulty variants of the loop test: one repair too many; a valid itinerary repaired again.
PlanLoopOneTooMany(n, v) == n <= RepairBudget /\ ~v.ok
PlanLoopIgnoresOk(n, v) == n < RepairBudget

\* for (let i = 0; i < 2 && !validation.ok; i++)
PlanLoopContinues(n, v) == n < RepairBudget /\ ~v.ok

\* Faulty variant of the return: a strict-success contract, failing when violations remain.
PlanReturnStrict(it, v, c) ==
  /\ pc' = IF v.ok THEN "returned" ELSE "threw"
  /\ result' = IF v.ok
               THEN [itinerary |-> toUiItinerary(it), allowedLists |-> allowed, validation |-> v]
               ELSE result
  /\ calls' = c
  /\ error' = IF v.ok THEN error ELSE "invalid"
  /\ UNCHANGED reviseArgs

\* return { itinerary: toUiItinerary(itinerary), allowedLists, validation }
PlanReturn(it, v, c) ==
  /\ pc' = "returned"
  /\ result' = [itinerary |-> toUiItinerary(it), allowedLists |-> allowed, validation |-> v]
  /\ calls' = c
  /\ error' = error
  /\ UNCHANGED reviseArgs

\* Faulty variant of the loop step: the repair call is handed the violations
\* of the validation before the latest one.
PlanIterateStaleViolations(it, v, n, c) ==
  /\ itinerary' = it
  /\ validation' = v
  /\ validated' = it
  /\ i' = n
  /\ resume' = "none"
  /\ IF PlanLoopContinues(n, v)
     THEN /\ pc' = "revise"
          /\ calls' = [c EXCEPT !.revise = @ + 1]
          /\ reviseArgs' = [itinerary |-> it, fixes |-> StrictFixes,
                            violations |-> <<validation.violations>>]
          /\ UNCHANGED <<result, error>>
     ELSE PlanReturn(it, v, c)
  /\ UNCHANGED <<aux, failed, batches, candidates, response, entry, trip, allowed>>

\* The loop test after a validation of `it` with result v (n: the value of i;
\* c: the calls made so far): the next repair call, or the return.
PlanIterate(it, v, n, c) ==
  /\ itinerary' = it
  /\ validation' = v
  /\ validated' = it
  /\ i' = n
  /\ resume' = "none"
  /\ IF PlanLoopContinues(n, v)
     THEN /\ pc' = "revise"
          /\ calls' = [c EXCEPT !.revise = @ + 1]
          /\ reviseArgs' = [itinerary |-> it, fixes |-> StrictFixes, violations |-> <<v.violations>>]
          /\ UNCHANGED <<result, error>>
     ELSE PlanReturn(it, v, c)
  /\ UNCHANGED <<aux, failed, batches, candidates, response, entry, trip, allowed>>

\* index.ts 468-476: the generation answer is parsed, shape-checked, schema-parsed
\* and validated.
PlanGenerated(obj) ==
  /\ entry = "planFromIntake"
  /\ Parsed("generate")
  /\ lastObj' = obj
  /\ IF ~looksLikeItinerary(obj) THEN Throw("shape")
     ELSE IF ~ItinerarySchemaOk(obj) THEN Throw("zod")
     ELSE LET it == ItinerarySchemaParse(obj)
          IN PlanIterate(it, Validate(it), 0, [calls EXCEPT !.validate = @ + 1])

\* Faulty variant of the repair step: the violations of the new pass are
\* appended to those of the earlier passes.
PlanRevisedMergesViolations(obj) ==
  /\ entry = "planFromIntake"
  /\ Parsed("revise")
  /\ lastObj' = obj
  /\ IF looksLikeItinerary(obj) /\ ~ItinerarySchemaOk(obj) THEN Throw("zod")
     ELSE LET it == IF looksLikeItinerary(obj) THEN ItinerarySchemaParse(obj) ELSE itinerary
              v == Validate(it)
              merged == [ok |-> v.ok, violations |-> validation.violations \o v.violations]
          IN PlanIterate(it, merged, i + 1, [calls EXCEPT !.validate = @ + 1])

\* index.ts 487-492: the repair answer is parsed, adopted when itinerary-shaped,
\* and the current itinerary validated again.
PlanRevised(obj) ==
  /\ entry = "planFromIntake"
  /\ Parsed("revise")
  /\ lastObj' = obj
  /\ IF looksLikeItinerary(obj) /\ ~ItinerarySchemaOk(obj) THEN Throw("zod")
     ELSE LET it == IF looksLikeItinerary(obj) THEN ItinerarySchemaParse(obj) ELSE itinerary
          IN PlanIterate(it, Validate(it), i + 1, [calls EXCEPT !.validate = @ + 1])

(***************************************************************************)
(* main                                                                    *)
(***************************************************************************)

\* index.ts 178: the evaluator is called on the current itinerary.
MainEvaluate(it, v, c) ==
  /\ pc' = "evaluate"
  /\ itinerary' = it
  /\ validation' = v
  /\ validated' = it
  /\ resume' = "none"
  /\ calls' = [c EXCEPT !.evaluate = @ + 1]
  /\ UNCHANGED <<aux, failed, batches, candidates, response, entry, trip, allowed, i, reviseArgs, result, error>>

\* index.ts 238-244: the final itinerary is written and printed.
MainOutput(it, c) ==
  /\ pc' = "returned"
  /\ itinerary' = it
  /\ result' = [itinerary |-> it]
  /\ resume' = "none"
  /\ calls' = c
  /\ UNCHANGED <<aux, failed, batches, candidates, response, entry, trip, allowed, validation, i, reviseArgs, error>>

\* index.ts 108-139
MainGenerated(obj) ==
  /\ entry = "main"
  /\ Parsed("generate")
  /\ lastObj' = obj
  /\ IF ~looksLikeItinerary(obj) THEN Throw("shape")
     ELSE IF ~ItinerarySchemaOk(obj) THEN Throw("zod")
     ELSE LET it == ItinerarySchemaParse(obj)
              v == Validate(it)
              c == [calls EXCEPT !.validate = @ + 1]
          IN IF ~v.ok
             THEN /\ pc' = "revise1"
                  /\ itinerary' = it
                  /\ validation' = v
                  /\ validated' = it
                  /\ resume' = "none"
                  /\ calls' = [c EXCEPT !.revise = @ + 1]
                  /\ reviseArgs' = [itinerary |-> it, fixes |-> StrictFixes, violations |-> <<v.violations>>]
                  /\ UNCHANGED <<aux, failed, batches, candidates, response, entry, trip, allowed, i, result, error>>
             ELSE MainEvaluate(it, v, c)

\* index.ts 162-174: the revised object is schema-parsed, validated and evaluated.
MainAdopt1(obj) ==
  IF ~ItinerarySchemaOk(obj) THEN Throw("zod")
  ELSE LET it == ItinerarySchemaParse(obj)
       IN MainEvaluate(it, Validate(it), [calls EXCEPT !.validate = @ + 1])

\* index.ts 142-165
MainRevised1(obj) ==
  /\ entry = "main"
  /\ Parsed("revise1")
  /\ lastObj' = obj
  /\ IF ~looksLikeItinerary(obj)
     THEN /\ pc' = "schemaFix1"
          /\ resume' = "none"
          /\ calls' = [calls EXCEPT !.revise = @ + 1]
          /\ reviseArgs' = [itinerary |-> itinerary, fixes |-> SchemaFixFixes1,
                            violations |-> <<validation.violations>>]
          /\ UNCHANGED <<aux, failed, batches, candidates, response, entry, trip, allowed, itinerary, validation, i, validated, result, error>>
     ELSE MainAdopt1(obj)

\* index.ts 161-162
MainSchemaFixed1(obj) ==
  /\ entry = "main"
  /\ Parsed("schemaFix1")
  /\ lastObj' = obj
  /\ MainAdopt1(obj)

\* index.ts 187-201
MainEvaluated(obj) ==
  /\ entry = "main"
  /\ Parsed("evaluate")
  /\ lastObj' = obj
  /\ LET score == IF Has(obj, "score") THEN obj.score ELSE 0
         fixes == IF Has(obj, "fixes") THEN obj.fixes ELSE <<>>
     IN IF score < ScoreThreshold /\ Len(fixes) > 0
        THEN /\ pc' = "revise2"
             /\ resume' = "none"
             /\ calls' = [calls EXCEPT !.revise = @ + 1]
             /\ reviseArgs' = [itinerary |-> itinerary, fixes |-> fixes, violations |-> Null]
             /\ UNCHANGED <<aux, failed, batches, candidates, response, entry, trip, allowed, itinerary, validation, i, validated, result, error>>
        ELSE /\ MainOutput(itinerary, calls)
             /\ UNCHANGED validated

\* Faulty variant: the validation after the quality pass is enforced, an
\* invalid result being dropped for the earlier itinerary.
MainAdopt2Enforced(obj) ==
  IF ~ItinerarySchemaOk(obj) THEN Throw("zod")
  ELSE LET it == ItinerarySchemaParse(obj)
       IN /\ MainOutput(IF Validate(it).ok THEN it ELSE itinerary,
                        [calls EXCEPT !.validate = @ + 1])
          /\ validated' = it

\* index.ts 223-244: the quality-pass object is schema-parsed, validated
\* (validation3, not looked at) and printed.
MainAdopt2(obj) ==
  IF ~ItinerarySchemaOk(obj) THEN Throw("zod")
  ELSE LET it == ItinerarySchemaParse(obj)
       IN /\ MainOutput(it, [calls EXCEPT !.validate = @ + 1])
          /\ validated' = it

\* index.ts 204-226
MainRevised2(obj) ==
  /\ entry = "main"
  /\ Parsed("revise2")
  /\ lastObj' = obj
  /\ IF ~looksLikeItinerary(obj)
     THEN /\ pc' = "schemaFix2"
          /\ resume' = "none"
          /\ calls' = [calls EXCEPT !.revise = @ + 1]
          /\ reviseArgs' = [itinerary |-> itinerary, fixes |-> SchemaFixFixes2, violations |-> Null]
          /\ UNCHANGED <<aux, failed, batches, candidates, response, entry, trip, allowed, itinerary, validation, i, validated, result, error>>
     ELSE MainAdopt2(obj)

\* index.ts 222-223
MainSchemaFixed2(obj) ==
  /\ entry = "main"
  /\ Parsed("schemaFix2")
  /\ lastObj' = obj
  /\ MainAdopt2(obj)

\* What both runs share: the candidate build and the settling of an awaited call.
Settle ==
  \/ CandidatesFail
  \/ CandidatesBuilt
  \/ CallRejects
  \/ NeedsJsonFix
  \/ JsonFixFails

PlanStep ==
  \/ \E obj \in ItineraryObjs : PlanGenerated(obj)
  \/ \E obj \in ItineraryObjs : PlanRevised(obj)

MainStep ==
  \/ \E obj \in ItineraryObjs : MainGenerated(obj)
  \/ \E obj \in ItineraryObjs : MainRevised1(obj)
  \/ \E obj \in ItineraryObjs : MainSchemaFixed1(obj)
  \/ \E obj \in EvalObjs : MainEvaluated(obj)
  \/ \E obj \in ItineraryObjs : MainRevised2(obj)
  \/ \E obj \in ItineraryObjs : MainSchemaFixed2(obj)

\* Both entry points.
Init == InitRun({"planFromIntake", "main"})
Next == Settle \/ PlanStep \/ MainStep
Spec == Init /\ [][Next]_vars

\* main alone.
MainInit == InitRun({"main"})
MainNext == Settle \/ MainStep
MainSpec == MainInit /\ [][MainNext]_vars

\* planFromIntake alone.
PlanInit == InitRun({"planFromIntake"})
PlanNext == Settle \/ PlanStep
PlanSpec == PlanInit /\ [][PlanNext]_vars

\* Every awaited call settles: the run is never suspended for ever.
PlanFairSpec == PlanSpec /\ WF_vars(PlanNext)

(***************************************************************************)
(* POST /api/plan (server.ts, index.ts 325-335): the body is parsed with   *)
(* IntakeSchema, planFromIntake is awaited inside try/catch.               *)
(***************************************************************************)

\* What a request body may be: rejected by IntakeSchema; accepted by it and by
\* TripRequestSchema; accepted by IntakeSchema but not by TripRequestSchema
\* (travelers above 20, an impossible date).
Bodies == {"malformed", "plannable", "unplannable"}

ApiInit ==
  /\ entry = "planFromIntake"
  /\ pc = "request"
  /\ resume = "none"
  /\ trip \in {t \in AgentTrips : t.pace = "relaxed"}
  /\ allowed \in {l \in AllowedLists : l.allowedIndoorBackups # <<>>}
  /\ itinerary = NoItinerary
  /\ validation = NoValidation
  /\ i = 0
  /\ calls = NoCalls
  /\ reviseArgs = NoArgs
  /\ validated = NoItinerary
  /\ lastObj = NoObj
  /\ result = NoResult
  /\ error = "none"
  /\ failed = {}
  /\ batches = <<>>
  /\ candidates = <<>>
  /\ response = <<>>
  /\ AuxIdle

\* The handler up to its first await: a 400 response, or planFromIntake is
\* called and runs up to the candidate build (or throws on its trip object).
Post(body) ==
  /\ pc = "request"
  /\ pc' = CASE body = "malformed" -> "responded"
            [] body = "plannable" -> "candidates"
            [] body = "unplannable" -> "threw"
  /\ response' = IF body = "malformed"
                 THEN Append(response, [status |-> 400, body |-> "intake"])
                 ELSE response
  /\ error' = IF body = "unplannable" THEN "zod" ELSE error
  /\ UNCHANGED <<aux, failed, batches, candidates, entry, resume, trip, allowed, itinerary,
                 validation, i, calls, reviseArgs, validated, lastObj, result>>

\* Faulty variant: the catch is missing and whatever there is gets sent as JSON.
RespondWithoutCatch ==
  /\ pc \in Ended
  /\ pc' = "responded"
  /\ response' = Append(response, [status |-> 200, body |-> result])
  /\ UNCHANGED <<aux, failed, batches, candidates, entry, resume, trip, allowed, itinerary,
                 validation, i, calls, reviseArgs, validated, lastObj, result, error>>

\* planFromIntake has settled: res.json(data), or res.status(500).send(message).
Respond ==
  /\ pc \in Ended
  /\ pc' = "responded"
  /\ response' = Append(response, IF pc = "returned"
                                  THEN [status |-> 200, body |-> result]
                                  ELSE [status |-> 500, body |-> error])
  /\ UNCHANGED <<aux, failed, batches, candidates, entry, resume, trip, allowed, itinerary,
                 validation, i, calls, reviseArgs, validated, lastObj, result, error>>

ApiNext ==
  \/ \E body \in Bodies : Post(body)
  \/ Settle
  \/ PlanStep
  \/ Respond
ApiSpec == ApiInit /\ [][ApiNext]_vars

\* Every awaited call settles.
ApiFairSpec == ApiSpec /\ WF_vars(ApiNext)

(***************************************************************************)
(* The validator called alone on drawn inputs: every itinerary drawn has   *)
(* passed ItinerarySchema (days >= 1, blocks >= 2, meals >= 2, day >= 1).  *)
(***************************************************************************)

MaxBlocks == 7
MaxDays == 2
MaxDayCount == 3
MaxDayNumber == 3

VAllowed ==
  [allowedAttractions |-> <<"Zoo", "Pier", "Dinner Dock">>,
   allowedRestaurants |-> <<"Green Table", "Eden", "Veggie House">>,
   allowedIndoorBackups |-> <<"Museum">>]

VTrips ==
  { [tripLengthDays |-> n, pace |-> p, constraints |-> c] :
      n \in 1..MaxTripDays, p \in Paces, c \in {<<>>, <<"vegetarian">>} }

VBlk(time, title) == [time |-> time, title |-> title]
GoodTime == "9 AM - 11 AM"

GoodBlocks(n) == [j \in 1..n |-> VBlk(GoodTime, IF j % 2 = 1 THEN "Zoo" ELSE "Pier")]

VBlockLists ==
  {GoodBlocks(n) : n \in 2..MaxBlocks}
    \cup { <<VBlk(GoodTime, "Zoo"), VBlk(GoodTime, "Sky Tower"), VBlk(GoodTime, "Pier")>>,
           <<VBlk(GoodTime, "Sky Tower"), VBlk(GoodTime, "Zoo"), VBlk(GoodTime, "Sky Tower")>>,
           <<VBlk(GoodTime, "Sky Tower"), VBlk(GoodTime, "Old Mill"), VBlk(GoodTime, "zoo")>>,
           <<VBlk("9 AM", "Zoo"), VBlk(GoodTime, "Pier"), VBlk("9-11", "Old Mill")>>,
           <<VBlk(GoodTime, "Dinner Dock"), VBlk(GoodTime, "Zoo"), VBlk(GoodTime, "Pier")>>,
           <<VBlk(GoodTime, "Lunch Spot"), VBlk(GoodTime, "Zoo"), VBlk(GoodTime, "LUNCH Spot")>> }

GoodMeals == <<"Lunch: Green Table - Tofu Banh Mi (Vegetarian)", "Dinner: Eden - vegan dal">>

VMealLists ==
  { GoodMeals,
    <<"Lunch: Eden - soup", "Dinner: Eden - pasta">>,
    <<"Lunch: Eden - tofu", "Lunch: Green Table - tofu">>,
    <<"lunch: Eden - tofu", "Dinner: Eden - tofu">>,
    <<"Lunch: Burger Hut - veg burger", "Dinner: Eden - tofu">>,
    <<"Lunch: Burger Hut - steak", "Dinner: Burger Hut - steak", "Dinner: Eden - tofu">>,
    <<"Lunch Eden - tofu", "Dinner: Eden - tofu">>,
    <<"Lunch: ", "Dinner: Eden - tofu">>,
    <<"Lunch: - tofu", "Dinner: Eden - tofu">>,
    <<"Lunch: Eden - ", "Dinner: Eden - tofu">>,
    <<"Lunch: Eden", "Dinner:Eden - tofu: mild - hot">>,
    <<"Lunch: Veggie House - beef burger", "Dinner: Eden - tofu">> }

GoodNotes == <<"Book ahead", "Bring a jacket">>

DayBody(blocks, meals, notes) == [blocks |-> blocks, meals |-> meals, notes |-> notes]

GoodBody == DayBody(GoodBlocks(3), GoodMeals, GoodNotes)

BadBody ==
  DayBody(<<VBlk("noon", "Sky Tower"), VBlk(GoodTime, "Sky Tower")>>,
          <<"Lunch: Burger Hut - steak", "Snack">>, <<>>)

VDayBodies ==
  {DayBody(b, GoodMeals, GoodNotes) : b \in VBlockLists}
    \cup {DayBody(GoodBlocks(3), m, GoodNotes) : m \in VMealLists}
    \cup {DayBody(GoodBlocks(3), GoodMeals, <<"Book ahead">>), BadBody}

DayOf(n, body) ==
  [day |-> n, theme |-> "Downtown", blocks |-> body.blocks, meals |-> body.meals,
   notes |-> body.notes]

\* All sequences over S of length 0..n
RECURSIVE SeqsUpTo(_, _)
SeqsUpTo(S, n) ==
  IF n = 0 THEN {<<>>}
  ELSE LET shorter == SeqsUpTo(S, n - 1)
       IN shorter \cup {<<x>> \o t : x \in S, t \in {u \in shorter : Len(u) = n - 1}}

ItineraryOf(days, rainBackups) ==
  [summary |-> "A city trip", days |-> days, mustBook |-> <<>>, rainBackups |-> rainBackups]

VRainLists == {<<>>, <<"Museum">>, <<"Museum", "Arcade", "Arcade">>}

\* The first day varies over every day body, the further days over two.
VItineraries ==
  { ItineraryOf(<<first>> \o rest, rb) :
      first \in {DayOf(n, body) : n \in 1..MaxTripDays, body \in VDayBodies},
      rest \in SeqsUpTo({DayOf(2, GoodBody), DayOf(1, BadBody)}, MaxDays - 1),
      rb \in VRainLists }

\* Itineraries that differ in their day numbers only.
NumberedItineraries ==
  { ItineraryOf([k \in 1..Len(nums) |-> DayOf(nums[k], GoodBody)], <<>>) :
      nums \in SeqsUpTo(1..MaxDayNumber, MaxDayCount) \ {<<>>} }

InitValidator(trips, itineraries) ==
  /\ entry = "validate"
  /\ pc = "call"
  /\ resume = "none"
  /\ trip \in trips
  /\ allowed = VAllowed
  /\ itinerary \in itineraries
  /\ validation = NoValidation
  /\ i = 0
  /\ calls = NoCalls
  /\ reviseArgs = NoArgs
  /\ validated = NoItinerary
  /\ lastObj = NoObj
  /\ result = NoResult
  /\ error = "none"
  /\ failed = {}
  /\ batches = <<>>
  /\ candidates = <<>>
  /\ response = <<>>
  /\ AuxIdle

\* One call of validateItineraryProduction.
ValidatorCall ==
  /\ entry = "validate"
  /\ pc = "call"
  /\ pc' = "returned"
  /\ validation' = Validate(itinerary)
  /\ validated' = itinerary
  /\ calls' = [calls EXCEPT !.validate = @ + 1]
  /\ UNCHANGED <<aux, failed, batches, candidates, response, entry, resume, trip, allowed, itinerary, i, reviseArgs, lastObj, result, error>>

ValidateInit == InitValidator(VTrips, VItineraries)
ValidateSpec == ValidateInit /\ [][ValidatorCall]_vars

DayNumberInit ==
  InitValidator({t \in VTrips : t.pace = "balanced" /\ t.constraints = <<>>}, NumberedItineraries)
DayNumberSpec == DayNumberInit /\ [][ValidatorCall]_vars

(***************************************************************************)
(* The validator called twice on the same arguments. A call may change the *)
(* objects it is handed (JavaScript passes them by reference): what they   *)
(* are after the call is part of the call's effect.                        *)
(***************************************************************************)

RECURSIVE InsertDay(_, _)
InsertDay(d, sorted) ==
  IF sorted = <<>> THEN <<d>>
  ELSE IF d.day < Head(sorted).day THEN <<d>> \o sorted
  ELSE <<Head(sorted)>> \o InsertDay(d, Tail(sorted))

RECURSIVE SortDays(_)
SortDays(days) ==
  IF days = <<>> THEN <<>> ELSE InsertDay(days[Len(days)], SortDays(SubSeq(days, 1, Len(days) - 1)))

\* Faulty variant: the days are sorted in place (itinerary.days.sort(...)).
ArgumentsAfterSortInPlace(t, it, lists) ==
  [trip |-> t, itinerary |-> [it EXCEPT !.days = SortDays(it.days)], allowed |-> lists]

\* The arguments after a call: validateItineraryProduction assigns to none of
\* them; it sorts a copy of the day numbers (map, then sort) and builds new Sets.
ArgumentsAfterValidation(t, it, lists) ==
  [trip |-> t, itinerary |-> it, allowed |-> lists]

\* A call of the validator; the second call's result is kept in `result`.
ValidatorCalled(at, then) ==
  /\ entry = "validate"
  /\ pc = at
  /\ pc' = then
  /\ LET after == ArgumentsAfterValidation(trip, itinerary, allowed)
         v == Validate(itinerary)
     IN /\ trip' = after.trip
        /\ itinerary' = after.itinerary
        /\ allowed' = after.allowed
        /\ validation' = IF at = "call" THEN v ELSE validation
        /\ result' = IF at = "call" THEN result ELSE [validation |-> v]
  /\ validated' = itinerary
  /\ calls' = [calls EXCEPT !.validate = @ + 1]
  /\ UNCHANGED <<aux, failed, batches, candidates, response, entry, resume, i, reviseArgs, lastObj, error>>

TwiceInit == InitValidator(VTrips, NumberedItineraries)
TwiceNext == ValidatorCalled("call", "once") \/ ValidatorCalled("once", "twice")
TwiceSpec == TwiceInit /\ [][TwiceNext]_vars

(***************************************************************************)
(* One repair round on the validator's inputs: the itinerary is validated, *)
(* handed to a repair call with its violations, and the answer (the same   *)
(* itinerary with the one disallowed block title replaced by an allowed    *)
(* attraction) is adopted and validated again (index.ts 476-492).          *)
(***************************************************************************)

\* The positions of the blocks of `it` whose title is not an allowed attraction.
InvalidBlocks(it) ==
  UNION {{<<k, j>> : j \in {n \in 1..Len(it.days[k].blocks) :
                              it.days[k].blocks[n].title \notin Range(allowed.allowedAttractions)}} :
         k \in 1..Len(it.days)}

SubstituteBlockLists ==
  { <<VBlk(GoodTime, "Zoo"), VBlk(GoodTime, "Sky Tower"), VBlk(GoodTime, "Pier")>>,
    <<VBlk("9 AM", "Sky Tower"), VBlk(GoodTime, "Zoo"), VBlk(GoodTime, "Pier")>>,
    <<VBlk(GoodTime, "Lunch Spot"), VBlk(GoodTime, "Zoo"), VBlk(GoodTime, "Pier")>>,
    <<VBlk(GoodTime, "Zoo"), VBlk(GoodTime, "Sky Tower")>> }

SubstituteItineraries ==
  { ItineraryOf(<<DayOf(1, DayBody(b, m, n))>> \o rest, rb) :
      b \in SubstituteBlockLists,
      m \in {GoodMeals, <<"Lunch: Burger Hut - steak", "Snack">>},
      n \in {GoodNotes, <<>>},
      rest \in SeqsUpTo({DayOf(2, GoodBody)}, MaxDays - 1),
      rb \in {<<>>, <<"Arcade">>} }

\* The repair answer replaces the disallowed title by `title`; it is adopted
\* and validated again.
Substitute(title) ==
  /\ entry = "validate"
  /\ pc = "returned"
  /\ Cardinality(InvalidBlocks(itinerary)) = 1
  /\ LET q == CHOOSE p \in InvalidBlocks(itinerary) : TRUE
         repaired == [itinerary EXCEPT !.days[q[1]].blocks[q[2]].title = title]
     IN /\ itinerary' = repaired
        /\ validation' = Validate(repaired)
        /\ validated' = repaired
  /\ reviseArgs' = [itinerary |-> itinerary, fixes |-> StrictFixes,
                    violations |-> <<validation.violations>>]
  /\ pc' = "revalidated"
  /\ calls' = [calls EXCEPT !.revise = @ + 1, !.validate = @ + 1]
  /\ UNCHANGED <<aux, failed, batches, candidates, response, entry, resume, trip, allowed, i, lastObj, result, error>>

SubstituteInit == InitValidator(VTrips, SubstituteItineraries)
SubstituteNext ==
  \/ ValidatorCall
  \/ \E title \in Range(VAllowed.allowedAttractions) : Substitute(title)
SubstituteSpec == SubstituteInit /\ [][SubstituteNext]_vars

(***************************************************************************)
(* buildCandidatesForCity (tools/buildCandidates.ts), followed by the      *)
(* projection of its candidates and a validation against the projected     *)
(* lists, as planFromIntake chains them (index.ts 456-474).                *)
(*                                                                         *)
(* The seven searches are awaited together (Promise.all), then the seven   *)
(* extractions: a Promise.all rejects as soon as one of its calls does.    *)
(* A batch is what extractAndValidate returns: candidates that passed      *)
(* CandidateSchema (a name of at least one character) and isJunkName.      *)
(***************************************************************************)

QueryCount == 7

Cand(name, category) == [name |-> name, category |-> category, url |-> "https://example.com"]

RestaurantBatches ==
  { <<Cand("Cafe A", "restaurant"), Cand("cafe a ", "restaurant"), Cand("Cafe B", "restaurant")>>,
    <<Cand("Cafe A", "restaurant")>>,
    <<Cand("Cafe A", "restaurant"), Cand("Zoo", "restaurant")>>,
    <<>> }

AttractionBatches1 ==
  { <<Cand("Zoo", "attraction"), Cand("Pier", "attraction")>>,
    <<Cand(" Zoo", "attraction"), Cand("zoo", "attraction"), Cand("Pier", "attraction")>>,
    <<Cand("Cafe A", "attraction"), Cand("Zoo", "attraction"), Cand("Pier", "attraction")>> }

AttractionBatches2 == { <<>>, <<Cand("Pier ", "attraction"), Cand("Cafe B", "attraction")>> }

AttractionBatches4 == { <<>>, <<Cand("ZOO", "attraction"), Cand("Museum", "attraction")>> }

IndoorBatches1 ==
  { <<Cand("Museum", "indoor_backup")>>,
    <<Cand("Arcade", "indoor_backup"), Cand(" ", "indoor_backup"), Cand("zoo", "indoor_backup")>> }

IndoorBatches2 == { <<>>, <<Cand("arcade", "indoor_backup"), Cand("Museum", "indoor_backup")>> }

\* The seven batches in merge order: restaurants, attr1..attr4, indoor1, indoor2.
BatchLists ==
  { <<r, a1, a2, <<>>, a4, i1, i2>> :
      r \in RestaurantBatches, a1 \in AttractionBatches1, a2 \in AttractionBatches2,
      a4 \in AttractionBatches4, i1 \in IndoorBatches1, i2 \in IndoorBatches2 }

\* Which calls of one Promise.all throw: none, or one of the seven.
FailureSets == {{}} \cup {{k} : k \in 1..QueryCount}

BuildTrip == [tripLengthDays |-> 1, pace |-> "relaxed", constraints |-> <<>>]

BuildItineraries ==
  { ItineraryOf(<<DayOf(1, DayBody(<<VBlk(GoodTime, t1), VBlk(GoodTime, t2)>>,
                                   <<"Lunch: Cafe A - tofu", "Dinner: Cafe A - dal">>, GoodNotes))>>, <<>>) :
      t1 \in {"Zoo", "Cafe A", "Cafe B", "zoo"}, t2 \in {"Pier", "Cafe A", "Museum"} }

NoAllowed == [allowedAttractions |-> <<>>, allowedRestaurants |-> <<>>, allowedIndoorBackups |-> <<>>]

BuildInit ==
  /\ entry = "build"
  /\ pc = "search"
  /\ resume = "none"
  /\ trip = BuildTrip
  /\ allowed = NoAllowed
  /\ itinerary \in BuildItineraries
  /\ validation = NoValidation
  /\ i = 0
  /\ calls = NoCalls
  /\ reviseArgs = NoArgs
  /\ validated = NoItinerary
  /\ lastObj = NoObj
  /\ result = NoResult
  /\ error = "none"
  /\ failed = {}
  /\ batches = <<>>
  /\ candidates = <<>>
  /\ response = <<>>
  /\ AuxIdle

\* The first Promise.all settles: the calls in f threw (lines 65-90).
SearchesSettle(f) ==
  /\ entry = "build"
  /\ pc = "search"
  /\ failed' = f
  /\ pc' = IF f = {} THEN "extract" ELSE "threw"
  /\ error' = IF f = {} THEN error ELSE "search"
  /\ UNCHANGED <<aux, batches, candidates, response, entry, resume, trip, allowed, itinerary,
                 validation, i, calls, reviseArgs, validated, lastObj, result>>

\* The second Promise.all settles: the calls in f threw, or the batches bs
\* were extracted; they are merged, deduplicated, capped and returned
\* (lines 96-133).
ExtractionsSettle(f, bs) ==
  /\ entry = "build"
  /\ pc = "extract"
  /\ failed' = f
  /\ pc' = IF f = {} THEN "built" ELSE "threw"
  /\ error' = IF f = {} THEN error ELSE "extract"
  /\ batches' = IF f = {} THEN bs ELSE batches
  /\ candidates' = IF f = {} THEN mergeCandidates(bs) ELSE candidates
  /\ UNCHANGED <<aux, response, entry, resume, trip, allowed, itinerary,
                 validation, i, calls, reviseArgs, validated, lastObj, result>>

\* The allowed lists are projected from the candidates and an itinerary is
\* validated against them.
ProjectAndValidate ==
  /\ entry = "build"
  /\ pc = "built"
  /\ LET lists == allowedListsFromCandidates(candidates)
     IN /\ allowed' = lists
        /\ validation' = validateItineraryProduction(trip, itinerary, lists.allowedAttractions,
                                                      lists.allowedRestaurants, lists.allowedIndoorBackups)
  /\ validated' = itinerary
  /\ calls' = [calls EXCEPT !.validate = @ + 1]
  /\ pc' = "returned"
  /\ UNCHANGED <<aux, failed, batches, candidates, response, entry, resume, trip, itinerary,
                 i, reviseArgs, lastObj, result, error>>

BuildNext ==
  \/ \E f \in FailureSets : SearchesSettle(f)
  \/ \E f \in FailureSets, bs \in BatchLists : ExtractionsSettle(f, bs)
  \/ ProjectAndValidate
BuildSpec == BuildInit /\ [][BuildNext]_vars

(***************************************************************************)
(* allowedListsFromCandidates called alone on drawn candidate lists.       *)
(***************************************************************************)

MaxCandidates == 3

CandidatePool ==
  { Cand("Cafe A", "restaurant"), Cand("cafe a ", "restaurant"), Cand("Cafe B", "restaurant"),
    Cand(" Zoo", "attraction"), Cand("Zoo", "attraction"),
    Cand("Zoo", "indoor_backup"), Cand(" ", "indoor_backup") }

CandidateLists == SeqsUpTo(CandidatePool, MaxCandidates)

ProjectInit ==
  /\ entry = "project"
  /\ pc = "call"
  /\ resume = "none"
  /\ trip = BuildTrip
  /\ allowed = NoAllowed
  /\ itinerary = NoItinerary
  /\ validation = NoValidation
  /\ i = 0
  /\ calls = NoCalls
  /\ reviseArgs = NoArgs
  /\ validated = NoItinerary
  /\ lastObj = NoObj
  /\ result = NoResult
  /\ error = "none"
  /\ failed = {}
  /\ batches = <<>>
  /\ candidates \in CandidateLists
  /\ response = <<>>
  /\ AuxIdle

\* One call of allowedListsFromCandidates.
Project ==
  /\ entry = "project"
  /\ pc = "call"
  /\ pc' = "returned"
  /\ allowed' = allowedListsFromCandidates(candidates)
  /\ UNCHANGED <<aux, failed, batches, candidates, response, entry, resume, trip, itinerary,
                 validation, i, calls, reviseArgs, validated, lastObj, result, error>>

ProjectSpec == ProjectInit /\ [][Project]_vars

(***************************************************************************)
(* Properties of the runs                                                  *)
(***************************************************************************)

\* C1: a planFromIntake run calls the generation collaborator at most once,
\* reviseItineraryJson at most 2 times and the validator at most 3 times,
\* whatever the trip, the allowed lists and the answers are, and then ends
\* (returns or throws).
C1_BoundedRounds ==
  /\ [](entry = "planFromIntake" =>
          calls.generate <= 1 /\ calls.revise <= 2 /\ calls.validate <= 3)
  /\ <>(pc \in Ended)

C1_Witness ==
  entry = "planFromIntake" /\ pc \in Ended /\ calls.generate = 1
    /\ calls.revise = 2 /\ calls.validate = 3

\* C2: when 2 repair calls have been made and the validation after the second
\* one still reports violations, planFromIntake returns the current itinerary
\* and that ValidationResult (ok false, violations non-empty); nothing is thrown.
C2_BestEffortReturn ==
  (entry = "planFromIntake" /\ calls.revise = 2 /\ calls.validate = 3 /\ ~validation.ok) =>
    /\ pc = "returned"
    /\ error = "none"
    /\ result.validation = validation
    /\ ~result.validation.ok
    /\ result.validation.violations # <<>>
    /\ result.itinerary = toUiItinerary(itinerary)

C2_Witness ==
  entry = "planFromIntake" /\ pc = "returned" /\ calls.revise = 2 /\ calls.validate = 3
    /\ ~result.validation.ok /\ result.validation.violations # <<>>

\* The fewest blocks a day may have under a pace.
PaceMinimum(pace) ==
  CASE pace = "relaxed" -> 2 [] pace = "balanced" -> 3 [] pace = "packed" -> 4

\* An itinerary-shaped object with a day that has fewer blocks than the pace
\* minimum or fewer than two meals.
BreaksBlockOrMealRule(obj) ==
  /\ looksLikeItinerary(obj)
  /\ \E k \in 1..Len(obj.days) :
       Len(obj.days[k].blocks) < PaceMinimum(trip.pace) \/ Len(obj.days[k].meals) < 2

\* C3: a generation or repair answer that parses to an itinerary-shaped object
\* but breaks a business rule (too few blocks for the pace, fewer than two
\* meals, a wrong day count) is reported by the validator and drives the
\* repair loop; it never ends the run with an exception.
C3_RuleBreachNeverThrown ==
  (entry = "planFromIntake" /\ BreaksBlockOrMealRule(lastObj)) =>
    /\ pc # "threw"
    /\ ~validation.ok
    /\ validation.violations # <<>>

\* C4: if the parsed generation answer fails the shape check (string summary,
\* array days), the run goes on to a repair call as after a failed validation;
\* it does not end with a fatal error, in main and in planFromIntake.
C4_ShapeFailureRepaired ==
  (calls.generate = 1 /\ calls.validate = 0 /\ lastObj # NoObj /\ ~looksLikeItinerary(lastObj)) =>
    /\ pc \in {"revise", "revise1"}
    /\ error = "none"

\* C5: in planFromIntake no repair call is made after a validation that
\* returned ok, and the itinerary returned with an ok validation is the one
\* that validated.
C5_StopsOnceValid ==
  /\ [][(entry = "planFromIntake" /\ validation.ok) => calls'.revise = calls.revise]_vars
  /\ [](entry = "planFromIntake" /\ pc = "returned" /\ result.validation.ok =>
          /\ result.itinerary = toUiItinerary(validated)
          /\ Validate(validated).ok)

C5_Witness ==
  entry = "planFromIntake" /\ pc = "returned" /\ result.validation.ok /\ calls.revise = 1

\* C6: in main, whatever the evaluator and the quality-repair pass answer
\* (unparseable text, a non-itinerary object, an object that fails the
\* itinerary schema), the run ends by printing an itinerary, not with an error.
C6_QualityPassNeverFatal ==
  (entry = "main" /\ calls.evaluate = 1 /\ pc \in Ended /\ error # "reject") => pc = "returned"

(***************************************************************************)
(* Properties of the validator                                             *)
(***************************************************************************)

Returned == entry = "validate" /\ pc = "returned"

\* The positions of the violations that start with one of the given prefixes.
Reported(prefixes) ==
  {n \in 1..Len(validation.violations) :
     \E p \in prefixes : StartsWith(validation.violations[n], p)}

\* The positions (day index, index in the day) of the blocks and of the meals.
BlockPositions ==
  UNION {{<<k, j>> : j \in 1..Len(itinerary.days[k].blocks)} : k \in 1..Len(itinerary.days)}
MealPositions ==
  UNION {{<<k, j>> : j \in 1..Len(itinerary.days[k].meals)} : k \in 1..Len(itinerary.days)}
BlockAt(q) == itinerary.days[q[1]].blocks[q[2]]
MealAt(q) == itinerary.days[q[1]].meals[q[2]]

\* The restaurant of a meal string: the text after the first colon and before
\* the first " - ", trimmed; "" when the meal has no colon.
RestaurantOfMeal(meal) ==
  LET c == IndexOf(meal, ":")
      after == SubSeq(meal, c + 1, Len(meal))
      d == IndexOf(after, " - ")
  IN IF c = 0 THEN ""
     ELSE Trim(IF d = 0 THEN after ELSE SubSeq(after, 1, d - 1))

BlockRange(pace) ==
  CASE pace = "relaxed" -> 2..3 [] pace = "balanced" -> 3..4 [] pace = "packed" -> 4..6

DietarySignals ==
  {"vegetarian", "vegan", "veg", "plant", "tofu", "paneer", "lentil", "chickpea", "vegetable"}

\* The rules an itinerary must keep, each with the prefixes of its violations.
DayRule ==
  /\ Len(itinerary.days) = trip.tripLengthDays
  /\ {itinerary.days[k].day : k \in 1..Len(itinerary.days)} = 1..trip.tripLengthDays
PaceRule == \A k \in 1..Len(itinerary.days) : Len(itinerary.days[k].blocks) \in BlockRange(trip.pace)
NotesRule == \A k \in 1..Len(itinerary.days) : Len(itinerary.days[k].notes) >= 2
TimeRule == \A q \in BlockPositions : Includes(BlockAt(q).time, " - ")
AttractionRule == \A q \in BlockPositions : BlockAt(q).title \in Range(allowed.allowedAttractions)
DiningRule ==
  \A q \in BlockPositions :
    ~Includes(ToLowerCase(BlockAt(q).title), "lunch") /\ ~Includes(ToLowerCase(BlockAt(q).title), "dinner")
LunchDinnerRule ==
  \A k \in 1..Len(itinerary.days) :
    /\ \E m \in Range(itinerary.days[k].meals) : StartsWith(m, "Lunch:")
    /\ \E m \in Range(itinerary.days[k].meals) : StartsWith(m, "Dinner:")
RestaurantRule == \A q \in MealPositions : RestaurantOfMeal(MealAt(q)) \in Range(allowed.allowedRestaurants)
VegetarianRule ==
  "vegetarian" \in Range(trip.constraints) =>
    \A q \in MealPositions : \E h \in DietarySignals : Includes(ToLowerCase(MealAt(q)), h)
RainRule == \A r \in Range(itinerary.rainBackups) : r \in Range(allowed.allowedIndoorBackups)

DayPrefixes == {"days.length=", "Missing or wrong day number"}

\* The prefixes "Day <n><text>" for the day numbers of the itinerary.
PerDay(text) ==
  {"Day " \o ToString(itinerary.days[k].day) \o text : k \in 1..Len(itinerary.days)}

Rules ==
  << [holds |-> DayRule, reported |-> Reported(DayPrefixes)],
     [holds |-> PaceRule, reported |-> Reported(PerDay(" blocks="))],
     [holds |-> NotesRule, reported |-> Reported(PerDay(" notes must have"))],
     [holds |-> TimeRule, reported |-> Reported(PerDay(" block time not a range"))],
     [holds |-> AttractionRule, reported |-> Reported({"Invalid attraction in blocks"})],
     [holds |-> DiningRule, reported |-> Reported({"Block title includes dining text"})],
     [holds |-> LunchDinnerRule, reported |-> Reported(PerDay(" missing "))],
     [holds |-> RestaurantRule, reported |-> Reported({"Meal format invalid", "Invalid restaurant in meals"})],
     [holds |-> VegetarianRule, reported |-> Reported({"Meal may not clearly indicate vegetarian"})],
     [holds |-> RainRule, reported |-> Reported({"Invalid rain backup"})] >>

\* C7: validateItineraryProduction returns ok exactly when the itinerary breaks
\* none of the rules (day count and numbering, blocks per pace, notes, time
\* range, allowed attraction without dining text, Lunch: and Dinner:, allowed
\* restaurant, vegetarian hint, allowed rain backup), and one call reports a
\* violation of every broken rule, not only of the first.
C7_OkIffNoRuleBroken ==
  Returned =>
    /\ validation.ok <=> \A r \in 1..Len(Rules) : Rules[r].holds
    /\ \A r \in 1..Len(Rules) : ~Rules[r].holds => Rules[r].reported # {}

\* C8: no day-count or day-numbering violation is reported if and only if
\* days.length = tripLengthDays and the day numbers are exactly
\* 1..tripLengthDays without gap or duplicate, in whatever order the days are.
C8_DayNumbering == Returned => (Reported(DayPrefixes) = {} <=> DayRule)

C8_Witness ==
  /\ Returned
  /\ Len(itinerary.days) = 2
  /\ itinerary.days[1].day = 2
  /\ DayRule
  /\ Reported(DayPrefixes) = {}

InvalidAttraction(title) == "Invalid attraction in blocks: \"" \o title \o "\""

\* C9: every block whose title is not in allowedAttractions gets exactly one
\* "Invalid attraction" violation (counted per block, also when blocks share
\* a title), and a block whose title is in the list gets none.
C9_OnePerInvalidBlock ==
  Returned =>
    /\ \A q \in BlockPositions :
         Cardinality({n \in 1..Len(validation.violations) :
                        validation.violations[n] = InvalidAttraction(BlockAt(q).title)})
           = IF BlockAt(q).title \in Range(allowed.allowedAttractions) THEN 0
             ELSE Cardinality({p \in BlockPositions : BlockAt(p).title = BlockAt(q).title})
    /\ Cardinality(Reported({"Invalid attraction in blocks"}))
         = Cardinality({q \in BlockPositions : BlockAt(q).title \notin Range(allowed.allowedAttractions)})

C9_Witness ==
  /\ Returned
  /\ \E p, q \in BlockPositions :
       /\ p # q
       /\ p[1] = q[1]
       /\ BlockAt(p).title = BlockAt(q).title
       /\ BlockAt(p).title \notin Range(allowed.allowedAttractions)
  /\ Cardinality(Reported({"Invalid attraction in blocks"})) >= 2

\* The "Invalid restaurant" violations the validator reports for one meal.
InvalidRestaurantReports(meal) ==
  LET vs == MealViolationsOf(trip, meal, Range(allowed.allowedRestaurants))
  IN {n \in 1..Len(vs) : StartsWith(vs[n], "Invalid restaurant in meals") /\ vs[n] \in Range(validation.violations)}

\* C10: the restaurant of a meal is the text after the first colon and before
\* the first " - ", trimmed; a meal whose restaurant is non-empty and not in
\* allowedRestaurants gets exactly one "Invalid restaurant" violation, and a
\* meal whose restaurant is in the list gets none.
C10_RestaurantOfMeal ==
  Returned =>
    \A q \in MealPositions :
      LET rest == RestaurantOfMeal(MealAt(q))
          n == Cardinality(InvalidRestaurantReports(MealAt(q)))
      IN /\ (rest # "" /\ rest \notin Range(allowed.allowedRestaurants)) => n = 1
         /\ rest \in Range(allowed.allowedRestaurants) => n = 0


\* The dish text of a meal string: what follows the first " - " after the
\* first colon; "" when there is none.
DishOfMeal(meal) ==
  LET c == IndexOf(meal, ":")
      after == SubSeq(meal, c + 1, Len(meal))
      d == IndexOf(after, " - ")
  IN IF c = 0 \/ d = 0 THEN "" ELSE SubSeq(after, d + 3, Len(after))

\* A meal of the form "<label>: <restaurant> - <dish>".
HasRestaurantAndDish(meal) ==
  LET c == IndexOf(meal, ":")
  IN c # 0 /\ IndexOf(SubSeq(meal, c + 1, Len(meal)), " - ") # 0

VegetarianUnclear(meal) == "Meal may not clearly indicate vegetarian dish: \"" \o meal \o "\""

\* C11: when the trip is vegetarian and the dish text of a meal (what follows
\* the restaurant name) holds no dietary-signal substring, case-insensitive,
\* the validator reports "may not clearly indicate vegetarian" for that meal,
\* whatever the restaurant name is.
C11_DishWithoutSignalReported ==
  (Returned /\ "vegetarian" \in Range(trip.constraints)) =>
    \A q \in MealPositions :
      (/\ HasRestaurantAndDish(MealAt(q))
       /\ \A h \in DietarySignals : ~Includes(ToLowerCase(DishOfMeal(MealAt(q))), h))
        => VegetarianUnclear(MealAt(q)) \in Range(validation.violations)


\* After a substitution: the title that was replaced and the one that replaced it.
ReplacedTitle ==
  LET q == CHOOSE p \in InvalidBlocks(reviseArgs.itinerary) : TRUE
  IN reviseArgs.itinerary.days[q[1]].blocks[q[2]].title
ReplacingTitle ==
  LET q == CHOOSE p \in InvalidBlocks(reviseArgs.itinerary) : TRUE
  IN itinerary.days[q[1]].blocks[q[2]].title

HasDiningText(title) ==
  Includes(ToLowerCase(title), "lunch") \/ Includes(ToLowerCase(title), "dinner")

\* The previous violation list without the invalid-attraction violation of the replaced block.
PreviousWithoutInvalidAttraction ==
  LET gone == InvalidAttraction(ReplacedTitle)
      Keep(v) == v # gone
  IN SelectSeq(reviseArgs.violations[1], Keep)

\* C12 (as stated): after the one disallowed block title has been replaced by
\* an allowed attraction, all else unchanged, re-validation gives the previous
\* violation list with exactly that block's invalid-attraction violation
\* removed; no other violation is added or removed.
C12_ExactlyThatViolationRemoved ==
  pc = "revalidated" => validation.violations = PreviousWithoutInvalidAttraction

\* C12 (amended): the same, provided neither the replaced title nor the
\* replacing one contains "lunch" or "dinner"; the dining-text rule reads the
\* same title, so its violation goes or comes with the title.
C12_RemovedUnlessDiningText ==
  (pc = "revalidated" /\ ~HasDiningText(ReplacedTitle) /\ ~HasDiningText(ReplacingTitle)) =>
    /\ validation.violations = PreviousWithoutInvalidAttraction
    /\ Len(validation.violations) = Len(reviseArgs.violations[1]) - 1

C12_Witness ==
  /\ pc = "revalidated"
  /\ ~HasDiningText(ReplacedTitle)
  /\ ~HasDiningText(ReplacingTitle)
  /\ ~isTimeRange(reviseArgs.itinerary.days[1].blocks[1].time)
  /\ InvalidAttraction(ReplacedTitle) \in Range(reviseArgs.violations[1])
  /\ Len(validation.violations) = Len(reviseArgs.violations[1]) - 1
  /\ Len(validation.violations) >= 2


(***************************************************************************)
(* Properties of the candidate build and of the projection                 *)
(***************************************************************************)

Built == entry = "build" /\ pc \in {"built", "returned"}

\* C13: in every itinerary that validates ok against the lists projected from
\* the candidates buildCandidatesForCity returned, no block title is the name
\* of an allowed restaurant and none contains "lunch" or "dinner".
C13_BlocksAreNotDining ==
  (entry = "build" /\ pc = "returned" /\ validation.ok) =>
    \A q \in BlockPositions :
      /\ BlockAt(q).title \notin Range(allowed.allowedRestaurants)
      /\ ~HasDiningText(BlockAt(q).title)

\* A restaurant and an attraction were extracted under the same name, and the
\* itinerary validated.
C13_Witness ==
  /\ entry = "build" /\ pc = "returned" /\ validation.ok
  /\ \E a \in Range(ConcatAll(batches)), r \in Range(ConcatAll(batches)) :
       a.category = "attraction" /\ r.category = "restaurant" /\ a.name = r.name
  /\ allowed.allowedRestaurants # <<>>


C15_SingleFailureIsolated ==
  (entry = "build" /\ Cardinality(failed) = 1) => (pc # "threw" /\ error = "none")


Projected == entry = "project" /\ pc = "returned"

\* The allowed list of each category.
ProjectedLists ==
  { <<"attraction", allowed.allowedAttractions>>,
    <<"restaurant", allowed.allowedRestaurants>>,
    <<"indoor_backup", allowed.allowedIndoorBackups>> }

NameKey(name) == ToLowerCase(Trim(name))

\* C16: the projector deduplicates names by case- and whitespace-insensitive
\* identity, the first-seen spelling winning: no list holds two names equal up
\* to case and surrounding white space, and the candidates "Cafe A",
\* "cafe a " and "Cafe B" of one category give exactly <<"Cafe A", "Cafe B">>.
C16_CaseInsensitiveDedup ==
  Projected =>
    /\ \A l \in ProjectedLists :
         \A m, n \in 1..Len(l[2]) : m # n => NameKey(l[2][m]) # NameKey(l[2][n])
    /\ candidates = <<Cand("Cafe A", "restaurant"), Cand("cafe a ", "restaurant"),
                      Cand("Cafe B", "restaurant")>>
         => allowed.allowedRestaurants = <<"Cafe A", "Cafe B">>

Merged == ConcatAll(batches)
FirstPosition(key) == CHOOSE k \in 1..Len(Merged) :
  NameKey(Merged[k].name) = key /\ \A j \in 1..(k - 1) : NameKey(Merged[j].name) # key

\* C18: no two candidates returned by buildCandidatesForCity have the same
\* lowercase-trimmed name, whatever their categories; the candidate kept for a
\* name is the first in merge order (restaurants, the four attraction
\* batches, the two indoor batches); and the kept candidates of a category
\* are in their merge order.
C18_FirstOccurrenceKept ==
  Built =>
    /\ \A m, n \in 1..Len(candidates) :
         m # n => NameKey(candidates[m].name) # NameKey(candidates[n].name)
    /\ \A m \in 1..Len(candidates) :
         Merged[FirstPosition(NameKey(candidates[m].name))] = candidates[m]
    /\ \A m, n \in 1..Len(candidates) :
         (m < n /\ candidates[m].category = candidates[n].category)
           => FirstPosition(NameKey(candidates[m].name)) < FirstPosition(NameKey(candidates[n].name))

\* The same name was extracted in three spellings and in two categories, and
\* one candidate of it is returned.
C18_Witness ==
  /\ Built
  /\ Cardinality({k \in 1..Len(Merged) : NameKey(Merged[k].name) = "zoo"}) >= 3
  /\ Cardinality({c \in Range(Merged) : NameKey(c.name) = "zoo"}) >= 3
  /\ Cardinality({k \in 1..Len(candidates) : NameKey(candidates[k].name) = "zoo"}) = 1
  /\ Len(candidates) >= 4


(***************************************************************************)
(* Properties of POST /api/plan                                            *)
(***************************************************************************)

\* C19: every POST /api/plan request gets exactly one response: 400 with a
\* message when the body fails the intake schema (planFromIntake is not
\* called); 500 with the error message when planFromIntake throws; or a
\* success body holding itinerary, allowedLists and validation together. A
\* run that failed yields no success body and no partial one.
C19_OneResponseOfThreeKinds ==
  /\ <>(pc = "responded")
  /\ [](Len(response) <= 1)
  /\ [](pc = "responded" =>
          /\ Len(response) = 1
          /\ \/ /\ response[1].status = 400
                /\ calls = NoCalls /\ error = "none" /\ result = NoResult
             \/ /\ response[1].status = 500
                /\ error # "none" /\ response[1].body = error
             \/ /\ response[1].status = 200
                /\ error = "none"
                /\ DOMAIN response[1].body = {"itinerary", "allowedLists", "validation"}
                /\ response[1].body.validation = validation
                /\ response[1].body.itinerary = toUiItinerary(itinerary)
                /\ response[1].body.allowedLists = allowed)

\* A run that had adopted an itinerary and made a repair call failed, and 500 was sent.
C19_Witness ==
  /\ pc = "responded"
  /\ response[1].status = 500
  /\ calls.revise >= 1
  /\ itinerary # NoItinerary


(***************************************************************************)
(* Properties of the repair rounds                                         *)
(***************************************************************************)

\* The step consumes the parsed answer of a repair call of the validation
\* loop (planFromIntake's revise, main's first revise), and the answer is not
\* itinerary-shaped.
IllShapedRepairAnswer ==
  /\ Parsed("revise") \/ Parsed("revise1")
  /\ pc' # "fixJson"
  /\ error' = "none"
  /\ ~looksLikeItinerary(lastObj')

FullObjectInstruction == "Return a FULL Itinerary JSON object (not partial)."

\* C20: in the repair loop of main and of planFromIntake, when a repair answer
\* parses but fails the shape check, one more repair call is made in that
\* iteration, with the instruction to return a complete, non-partial
\* itinerary object.
C20_ShapeFailureGetsSchemaFix ==
  [][IllShapedRepairAnswer =>
       /\ calls'.revise = calls.revise + 1
       /\ FullObjectInstruction \in Range(reviseArgs'.fixes)]_vars


\* The step consumes the parsed answer of the last repair call of an
\* iteration (planFromIntake's revise, main's schema-fix revise), and that
\* answer is not itinerary-shaped: no output of the iteration is.
NoShapedRepairAnswer ==
  /\ Parsed("revise") \/ Parsed("schemaFix1")
  /\ pc' # "fixJson"
  /\ error' \notin {"reject", "json"}
  /\ ~looksLikeItinerary(lastObj')

\* C21: in the repair loop of main and of planFromIntake, when no repair
\* answer of an iteration is itinerary-shaped, the itinerary stays what it was
\* before the iteration and is validated again; the run does not fail and
\* does not adopt the ill-shaped object.
C21_IllShapedKeepsItinerary ==
  [][NoShapedRepairAnswer =>
       /\ itinerary' = itinerary
       /\ pc' # "threw"
       /\ calls'.validate = calls.validate + 1]_vars


\* A repair call that passes a violation list is awaited (or its answer is
\* with fixJsonOnly).
StrictRepairPending ==
  \E stage \in {"revise", "revise1", "schemaFix1"} : Parsed(stage)

\* C22: every repair call that passes a violation list (the strict repairs of
\* main and planFromIntake, the schema-fix fallback included) is given the
\* current itinerary and the violations of the latest validation, which was a
\* validation of that same itinerary and had finished before the call.
C22_RepairGetsLatestViolations ==
  StrictRepairPending =>
    /\ reviseArgs.itinerary = itinerary
    /\ validated = itinerary
    /\ calls.validate >= 1
    /\ validation = Validate(itinerary)
    /\ reviseArgs.violations = <<Validate(itinerary).violations>>

\* The second repair of planFromIntake, after the first repair answer was adopted.
C22_Witness ==
  /\ entry = "planFromIntake"
  /\ pc = "revise"
  /\ i = 1
  /\ looksLikeItinerary(lastObj)
  /\ calls.validate = 2


\* C23: the ValidationResult that planFromIntake returns is the validator's
\* result for exactly the itinerary of the same response (before its
\* conversion to the UI shape) under the same trip and allowed lists: not the
\* result of an earlier itinerary, not merged with earlier passes.
C23_ReturnedValidationIsOfReturnedItinerary ==
  (entry = "planFromIntake" /\ pc = "returned") =>
    /\ result.itinerary = toUiItinerary(itinerary)
    /\ result.allowedLists = allowed
    /\ result.validation = Validate(itinerary)

\* Returned after two repairs, the last answer adopted and still invalid.
C23_Witness ==
  /\ entry = "planFromIntake"
  /\ pc = "returned"
  /\ calls.revise = 2
  /\ looksLikeItinerary(lastObj)
  /\ itinerary = ItinerarySchemaParse(lastObj)
  /\ ~result.validation.ok

(***************************************************************************)
(* llm.ts: extractFirstJsonSlice                                           *)
(***************************************************************************)

\* The planning loop is not running: component `e` is at `p`.
LoopIdle(e, p) ==
  /\ entry = e
  /\ pc = p
  /\ resume = "none"
  /\ trip = BuildTrip
  /\ allowed = NoAllowed
  /\ itinerary = NoItinerary
  /\ validation = NoValidation
  /\ i = 0
  /\ calls = NoCalls
  /\ reviseArgs = NoArgs
  /\ validated = NoItinerary
  /\ lastObj = NoObj
  /\ result = NoResult
  /\ error = "none"

RunIdle(e, p) ==
  /\ LoopIdle(e, p)
  /\ failed = {}
  /\ batches = <<>>
  /\ candidates = <<>>
  /\ response = <<>>

MaxTextLen == 6

Quote == "\""
Backslash == "\\"

\* The characters the scan tells apart, and one other.
SliceAlphabet == {"{", "}", Quote, Backslash, "a"}

\* All texts over an alphabet of length 0..n
RECURSIVE TextsUpTo(_, _)
TextsUpTo(alphabet, n) ==
  IF n = 0 THEN {""}
  ELSE LET shorter == TextsUpTo(alphabet, n - 1)
       IN shorter \cup {c \o t : c \in alphabet, t \in {u \in shorter : Len(u) = n - 1}}

Texts == TextsUpTo(SliceAlphabet, MaxTextLen)

\* What a call that may throw gives: a value, or the message of the Error.
Value(v) == [error |-> "none", value |-> v]
Thrown(message) == [error |-> message]

\* for (let i = start; i < raw.length; i++) { ... } throw new Error("Unterminated JSON")
RECURSIVE sliceScan(_, _, _, _, _, _, _, _)
sliceScan(text, open, close, start, k, depth, inString, escaped) ==
  IF k > Len(text) THEN Thrown("Unterminated JSON")
  ELSE LET ch == SubSeq(text, k, k)
       IN IF inString
          THEN IF escaped THEN sliceScan(text, open, close, start, k + 1, depth, TRUE, FALSE)
               ELSE IF ch = Backslash
                    THEN sliceScan(text, open, close, start, k + 1, depth, TRUE, TRUE)
               ELSE sliceScan(text, open, close, start, k + 1, depth, ch # Quote, escaped)
          ELSE IF ch = Quote
               THEN sliceScan(text, open, close, start, k + 1, depth, TRUE, escaped)
          ELSE LET opened == IF ch = open THEN depth + 1 ELSE depth
                   closed == IF ch = close THEN opened - 1 ELSE opened
               IN IF closed = 0 THEN Value(SubSeq(text, start, k))
                  ELSE sliceScan(text, open, close, start, k + 1, closed, inString, escaped)

\* A scan that counts every brace, quoted or not.
RECURSIVE blindScan(_, _, _, _, _, _)
blindScan(text, open, close, start, k, depth) ==
  IF k > Len(text) THEN Thrown("Unterminated JSON")
  ELSE LET ch == SubSeq(text, k, k)
           opened == IF ch = open THEN depth + 1 ELSE depth
           closed == IF ch = close THEN opened - 1 ELSE opened
       IN IF closed = 0 THEN Value(SubSeq(text, start, k))
          ELSE blindScan(text, open, close, start, k + 1, closed)

\* Faulty variant: braces inside strings change the depth.
extractFirstJsonSliceBlind(text, open, close) ==
  LET start == IndexOf(text, open)
  IN IF start = 0 THEN Thrown("No JSON found")
     ELSE blindScan(text, open, close, start, start, 0)

extractFirstJsonSlice(text, open, close) ==
  LET start == IndexOf(text, open)
  IN IF start = 0 THEN Thrown("No JSON found")
     ELSE sliceScan(text, open, close, start, start, 0, FALSE, FALSE)

SliceInit ==
  /\ RunIdle("slice", "call")
  /\ raw \in Texts
  /\ fixed = <<>>
  /\ CacheIdle /\ PoolIdle /\ OrderIdle

\* One call of extractFirstJsonSlice(raw, "{", "}").
Slice ==
  /\ entry = "slice"
  /\ pc = "call"
  /\ LET r == extractFirstJsonSlice(raw, "{", "}")
     IN /\ result' = r
        /\ pc' = IF r.error = "none" THEN "returned" ELSE "threw"
        /\ error' = r.error
  /\ UNCHANGED <<aux, failed, batches, candidates, response, entry, resume, trip, allowed,
                 itinerary, validation, i, calls, reviseArgs, validated, lastObj>>

SliceSpec == SliceInit /\ [][Slice]_vars

\* Where the scan stands before it reads each character from the first
\* opening brace on: outside a string, in one, or in one after a backslash.
ScanState(text, start) ==
  LET st[k \in start..Len(text)] ==
        IF k = start THEN "outside"
        ELSE LET before == st[k - 1]
                 ch == SubSeq(text, k - 1, k - 1)
             IN CASE before = "outside" -> IF ch = Quote THEN "inside" ELSE "outside"
                  [] before = "escaping" -> "inside"
                  [] before = "inside" -> IF ch = Backslash THEN "escaping"
                                         ELSE IF ch = Quote THEN "outside" ELSE "inside"
  IN st

\* The positions up to e of the character c outside double-quoted strings.
Unquoted(text, start, e, c) ==
  {k \in start..e : SubSeq(text, k, k) = c /\ ScanState(text, start)[k] = "outside"}

\* The closing braces outside strings at which the depth is back to zero.
BalancingBraces(text, start) ==
  {e \in Unquoted(text, start, Len(text), "}") :
     Cardinality(Unquoted(text, start, e, "{")) = Cardinality(Unquoted(text, start, e, "}"))}

\* C29: extractFirstJsonSlice returns the substring from the first opening
\* brace of the text to the closing brace that balances it, the depth being
\* counted outside double-quoted strings only and a backslash inside a string
\* escaping the next character; it fails with "No JSON found" when there is no
\* opening brace and with "Unterminated JSON" when the depth never returns to zero.
C29_BalancedSlice ==
  (entry = "slice" /\ pc # "call") =>
    LET start == IndexOf(raw, "{")
        ends == IF start = 0 THEN {} ELSE BalancingBraces(raw, start)
    IN IF start = 0 THEN pc = "threw" /\ error = "No JSON found"
       ELSE IF ends = {} THEN pc = "threw" /\ error = "Unterminated JSON"
       ELSE /\ pc = "returned"
            /\ \E e \in ends :
                 /\ \A other \in ends : e <= other
                 /\ result = Value(SubSeq(raw, start, e))

\* A text whose slice holds a quoted closing brace, with text around the slice.
C29_Witness ==
  /\ entry = "slice"
  /\ pc = "returned"
  /\ raw = "a{\"}\"}"
  /\ result.value = "{\"}\"}"

(***************************************************************************)
(* llm.ts: JSON.parse, extractFirstJsonObject, parseJsonObjectSafe         *)
(***************************************************************************)

\* text[k], or "" past the end.
At(text, k) == IF k >= 1 /\ k <= Len(text) THEN SubSeq(text, k, k) ELSE ""

\* The first position from k on that holds no white space.
RECURSIVE skipSpace(_, _)
skipSpace(text, k) == IF IsSpace(At(text, k)) THEN skipSpace(text, k + 1) ELSE k

Parse(next, value) == [ok |-> TRUE, next |-> next, value |-> value]
NoParse == [ok |-> FALSE]

\* A JSON string from the character after its opening quote; the escapes \" and \\.
RECURSIVE parseString(_, _, _)
parseString(text, k, acc) ==
  LET ch == At(text, k)
  IN IF ch = "" THEN NoParse
     ELSE IF ch = Quote THEN Parse(k + 1, acc)
     ELSE IF ch = Backslash
          THEN IF At(text, k + 1) \in {Quote, Backslash}
               THEN parseString(text, k + 2, acc \o At(text, k + 1))
               ELSE NoParse
     ELSE parseString(text, k + 1, acc \o ch)

\* JSON values: strings, and objects of them (a later member of the same key
\* replaces the earlier one).
RECURSIVE parseValue(_, _)
RECURSIVE parseMembers(_, _, _)
parseMembers(text, k, acc) ==
  LET at == skipSpace(text, k)
      key == IF At(text, at) = Quote THEN parseString(text, at + 1, "") ELSE NoParse
      colon == IF key.ok THEN skipSpace(text, key.next) ELSE 0
      val == IF key.ok /\ At(text, colon) = ":" THEN parseValue(text, colon + 1) ELSE NoParse
      after == IF val.ok THEN skipSpace(text, val.next) ELSE 0
      members == IF val.ok
                 THEN [name \in DOMAIN acc \cup {key.value} |->
                         IF name = key.value THEN val.value ELSE acc[name]]
                 ELSE acc
  IN IF ~val.ok THEN NoParse
     ELSE IF At(text, after) = "}" THEN Parse(after + 1, members)
     ELSE IF At(text, after) = "," THEN parseMembers(text, after + 1, members)
     ELSE NoParse

parseValue(text, k) ==
  LET at == skipSpace(text, k)
  IN IF At(text, at) = Quote THEN parseString(text, at + 1, "")
     ELSE IF At(text, at) = "{"
          THEN IF At(text, skipSpace(text, at + 1)) = "}"
               THEN Parse(skipSpace(text, at + 1) + 1, <<>>)
               ELSE parseMembers(text, at + 1, <<>>)
     ELSE NoParse

\* JSON.parse, on texts whose values are strings and objects.
JSONParse(text) ==
  LET v == parseValue(text, 1)
  IN IF v.ok /\ skipSpace(text, v.next) > Len(text) THEN Value(v.value)
     ELSE Thrown("SyntaxError")

\* return JSON.parse(extractFirstJsonSlice(raw, "{", "}"))
extractFirstJsonObject(text) ==
  LET slice == extractFirstJsonSlice(text, "{", "}")
  IN IF slice.error # "none" THEN slice ELSE JSONParse(slice.value)

MaxRawLen == 3

\* Answers of a model: prose around an object, a quoted brace, a truncated
\* object, a balanced slice that is no JSON, no object at all.
SampleTexts ==
  { "{\"a\":\"b\"}",
    "Sure: {\"a\": {\"b\":\"}\"}, \"c\":\"d\"} ok",
    "{\"a\":{\"b\":\"c\"}",
    "{\"a\" \"b\"}",
    "{a:\"b\"}",
    "[\"a\"]",
    "no json here" }

RawTexts == SampleTexts \cup TextsUpTo(SliceAlphabet, MaxRawLen)

ParseInit ==
  /\ RunIdle("parse", "call")
  /\ raw \in RawTexts
  /\ fixed = <<>>
  /\ CacheIdle /\ PoolIdle /\ OrderIdle

\* The value is returned, or the error leaves parseJsonObjectSafe.
ParseSettles(r) ==
  /\ pc' = IF r.error = "none" THEN "returned" ELSE "threw"
  /\ result' = IF r.error = "none" THEN r ELSE result
  /\ error' = r.error

\* try { return extractFirstJsonObject(raw) } catch { ... await fixJsonOnly(raw, "object")
ParseDirect ==
  /\ entry = "parse"
  /\ pc = "call"
  /\ LET r == extractFirstJsonObject(raw)
     IN IF r.error = "none"
        THEN ParseSettles(r) /\ UNCHANGED calls
        ELSE /\ pc' = "fixJson"
             /\ calls' = [calls EXCEPT !.fixJson = @ + 1]
             /\ UNCHANGED <<result, error>>
  /\ UNCHANGED <<aux, failed, batches, candidates, response, entry, resume, trip, allowed,
                 itinerary, validation, i, reviseArgs, validated, lastObj>>

\* fixJsonOnly rejects.
FixRejects ==
  /\ entry = "parse"
  /\ pc = "fixJson"
  /\ pc' = "threw"
  /\ error' = "reject"
  /\ UNCHANGED <<aux, failed, batches, candidates, response, entry, resume, trip, allowed,
                 itinerary, validation, i, calls, reviseArgs, validated, lastObj, result>>

\* Faulty variant: a repaired text that fails too is sent to fixJsonOnly again.
FixAnswersRetries(text) ==
  /\ entry = "parse"
  /\ pc = "fixJson"
  /\ fixed' = <<text>>
  /\ LET r == extractFirstJsonObject(text)
     IN IF r.error = "none" \/ calls.fixJson >= 3
        THEN ParseSettles(r) /\ UNCHANGED calls
        ELSE /\ pc' = "fixJson"
             /\ calls' = [calls EXCEPT !.fixJson = @ + 1]
             /\ UNCHANGED <<result, error>>
  /\ UNCHANGED <<raw, cacheVars, poolVars, orderVars, failed, batches, candidates, response,
                 entry, resume, trip, allowed, itinerary, validation, i, reviseArgs,
                 validated, lastObj>>

\* const fixed = await fixJsonOnly(raw, "object"); return extractFirstJsonObject(fixed)
FixAnswers(text) ==
  /\ entry = "parse"
  /\ pc = "fixJson"
  /\ fixed' = <<text>>
  /\ ParseSettles(extractFirstJsonObject(text))
  /\ UNCHANGED <<raw, cacheVars, poolVars, orderVars, failed, batches, candidates, response,
                 entry, resume, trip, allowed, itinerary, validation, i, calls, reviseArgs,
                 validated, lastObj>>

ParseNext ==
  \/ ParseDirect
  \/ FixRejects
  \/ \E text \in SampleTexts \cup {"", "{}"} : FixAnswers(text)

ParseSpec == ParseInit /\ [][ParseNext]_vars

\* C24: parseJsonObjectSafe calls fixJsonOnly at most once per input, and only
\* when extracting and parsing the balanced object of the raw text failed; when
\* the repaired text fails too, the error reaches the caller, nothing is
\* returned and nothing is retried.
C24_OneJsonRepair ==
  entry = "parse" =>
    /\ calls.fixJson <= 1
    /\ calls.fixJson = 1 <=> (pc # "call" /\ extractFirstJsonObject(raw).error # "none")
    /\ pc = "fixJson" => fixed = <<>>
    /\ fixed # <<>> =>
         /\ calls.fixJson = 1
         /\ pc \in Ended
         /\ pc = "threw" <=> extractFirstJsonObject(fixed[1]).error # "none"
         /\ pc = "threw" =>
              result = NoResult /\ error = extractFirstJsonObject(fixed[1]).error
         /\ pc = "returned" => result = extractFirstJsonObject(fixed[1])

\* The raw text held a balanced slice that is no JSON, and the repaired text
\* was cut short: the second failure is thrown.
C24_Witness ==
  /\ entry = "parse"
  /\ pc = "threw"
  /\ raw = "{\"a\" \"b\"}"
  /\ fixed = <<"{\"a\":{\"b\":\"c\"}">>
  /\ error = "Unterminated JSON"
  /\ calls.fixJson = 1

(***************************************************************************)
(* Properties of main's quality pass                                       *)
(***************************************************************************)

\* The evaluator's object asks for a quality repair: its score is below the
\* threshold (a score that is no number counts as 0) and it lists fixes.
LowScoreWithFixes(obj) ==
  /\ Has(obj, "score") => obj.score < ScoreThreshold
  /\ Has(obj, "fixes")
  /\ obj.fixes # <<>>

\* The step takes the evaluator's parsed answer.
EvaluatorAnswered == entry = "main" /\ Parsed("evaluate") /\ pc' \notin {"fixJson", "threw"}

\* The step takes an answer of the quality pass and prints the final itinerary.
QualityAnswerAdopted ==
  /\ entry = "main"
  /\ Parsed("revise2") \/ Parsed("schemaFix2")
  /\ pc' = "returned"

\* C25: in main, when the evaluator's score is below 90 (a non-numeric score
\* counting as 0) and its fixes are non-empty, exactly one quality-repair pass
\* runs, and the validation after it is not enforced: whatever it reports, the
\* final itinerary is the output of the pass, with no rollback and no further
\* repair; otherwise no quality-repair call is made.
C25_OneUnenforcedQualityPass ==
  /\ [][EvaluatorAnswered =>
          IF LowScoreWithFixes(lastObj')
          THEN /\ pc' = "revise2"
               /\ calls'.revise = calls.revise + 1
               /\ reviseArgs' = [itinerary |-> itinerary, fixes |-> lastObj'.fixes,
                                 violations |-> Null]
               /\ itinerary' = itinerary
          ELSE /\ pc' = "returned"
               /\ calls' = calls
               /\ result'.itinerary = itinerary]_vars
  /\ [][(entry = "main" /\ Parsed("revise2")) =>
          /\ pc' \in {"fixJson", "schemaFix2", "returned", "threw"}
          /\ calls'.revise <= calls.revise + 1
          /\ calls'.evaluate = calls.evaluate]_vars
  /\ [][(entry = "main" /\ Parsed("schemaFix2")) =>
          /\ pc' \in {"fixJson", "returned", "threw"}
          /\ calls'.revise = calls.revise
          /\ calls'.evaluate = calls.evaluate]_vars
  /\ [][QualityAnswerAdopted =>
          /\ itinerary' = ItinerarySchemaParse(lastObj')
          /\ result'.itinerary = itinerary'
          /\ calls'.validate = calls.validate + 1
          /\ calls'.revise = calls.revise]_vars

\* The quality pass has run and its output, which the validator rejects, was printed.
C25_Witness ==
  /\ entry = "main"
  /\ pc = "returned"
  /\ calls.evaluate = 1
  /\ reviseArgs.violations = Null
  /\ reviseArgs.fixes # <<>>
  /\ looksLikeItinerary(lastObj)
  /\ result.itinerary = ItinerarySchemaParse(lastObj)
  /\ ~Validate(result.itinerary).ok

(***************************************************************************)
(* buildCandidatesForCity: the completion order of the concurrent calls    *)
(***************************************************************************)

\* What the extraction of each query's results yields, by query.
OrderBatchLists ==
  { <<<<Cand("Cafe A", "restaurant"), Cand("Zoo", "restaurant")>>,
      <<Cand(" Zoo", "attraction"), Cand("zoo", "attraction"), Cand("Pier", "attraction")>>,
      <<Cand("Pier ", "attraction"), Cand("Cafe B", "attraction")>>,
      <<>>,
      <<Cand("ZOO", "attraction"), Cand("Museum", "attraction")>>,
      <<Cand("Arcade", "indoor_backup"), Cand(" ", "indoor_backup"), Cand("zoo", "indoor_backup")>>,
      <<Cand("arcade", "indoor_backup"), Cand("Museum", "indoor_backup")>>>>,
    <<<<Cand("Cafe A", "restaurant"), Cand("cafe a ", "restaurant"), Cand("Cafe B", "restaurant")>>,
      <<Cand("Cafe A", "attraction"), Cand("Zoo", "attraction"), Cand("Pier", "attraction")>>,
      <<Cand("pier", "attraction")>>,
      <<Cand("Museum", "attraction")>>,
      <<Cand("ZOO", "attraction"), Cand("Museum", "attraction")>>,
      <<Cand("Museum", "indoor_backup")>>,
      <<Cand("MUSEUM", "indoor_backup"), Cand("Arcade", "indoor_backup")>>>> }

\* The values array of a Promise.all over the seven calls, none settled.
Pending == [k \in 1..QueryCount |-> <<>>]

\* The values of a Promise.all whose calls have all settled.
Values(array) == [k \in 1..QueryCount |-> array[k][1]]

\* Faulty variant: the values are collected in completion order.
PromiseAllInCompletionOrder(array, k, v) ==
  LET first == CHOOSE j \in 1..QueryCount :
                 array[j] = <<>> /\ \A h \in 1..(j - 1) : array[h] # <<>>
  IN [array EXCEPT ![first] = <<v>>]

\* Promise.all: the value of the k-th call takes the k-th place.
PromiseAll(array, k, v) == [array EXCEPT ![k] = <<v>>]

OrderInit ==
  /\ LoopIdle("order", "search")
  /\ failed = {}
  /\ candidates = <<>>
  /\ response = <<>>
  /\ ParseIdle /\ CacheIdle /\ PoolIdle
  /\ settled = <<>>
  /\ slots = Pending
  /\ found = <<>>
  /\ \E bs \in OrderBatchLists : batches = bs

\* The k-th search settles with the results of query k; once all have, the
\* results are destructured and the seven extractions are started (lines 65-114).
SearchSettles(k) ==
  /\ entry = "order"
  /\ pc = "search"
  /\ k \notin Range(settled)
  /\ LET array == PromiseAll(slots, k, k)
     IN IF Len(settled) + 1 = QueryCount
        THEN /\ found' = Values(array)
             /\ slots' = Pending
             /\ settled' = <<>>
             /\ pc' = "extract"
        ELSE /\ slots' = array
             /\ settled' = Append(settled, k)
             /\ UNCHANGED <<found, pc>>
  /\ UNCHANGED <<parseVars, cacheVars, poolVars, failed, batches, candidates, response, entry,
                 resume, trip, allowed, itinerary, validation, i, calls, reviseArgs,
                 validated, lastObj, result, error>>

\* The k-th extraction settles with the candidates of the results it was
\* given; once all have, they are merged, deduplicated, capped and returned
\* (lines 96-133).
ExtractionSettles(k) ==
  /\ entry = "order"
  /\ pc = "extract"
  /\ k \notin Range(settled)
  /\ LET array == PromiseAll(slots, k, batches[found[k]])
     IN /\ slots' = array
        /\ settled' = Append(settled, k)
        /\ IF Len(settled) + 1 = QueryCount
           THEN /\ candidates' = mergeCandidates(Values(array))
                /\ pc' = "built"
           ELSE UNCHANGED <<candidates, pc>>
  /\ UNCHANGED <<parseVars, cacheVars, poolVars, found, failed, batches, response, entry,
                 resume, trip, allowed, itinerary, validation, i, calls, reviseArgs,
                 validated, lastObj, result, error>>

OrderNext ==
  \/ \E k \in 1..QueryCount : SearchSettles(k)
  \/ \E k \in 1..QueryCount : ExtractionSettles(k)

OrderSpec == OrderInit /\ [][OrderNext]_vars

\* C26: the list buildCandidatesForCity returns depends on the contents of the
\* search and extraction results only: for every order in which the concurrent
\* searches and the concurrent extractions complete it is the same list,
\* element for element (each extraction is given the results of its own query,
\* and the list is the merge, in query order, of what each query yields).
C26_CompletionOrderIrrelevant ==
  /\ (entry = "order" /\ pc \in {"extract", "built"}) => found = [k \in 1..QueryCount |-> k]
  /\ (entry = "order" /\ pc = "built") => candidates = mergeCandidates(batches)

\* The extractions completed in the reverse of the query order.
C26_Witness ==
  /\ entry = "order"
  /\ pc = "built"
  /\ settled = <<7, 6, 5, 4, 3, 2, 1>>
  /\ Len(candidates) > 3

(***************************************************************************)
(* images.ts: resolvePlacesMedia                                           *)
(***************************************************************************)

MaxPlaces == 4
MaxConcurrencyArg == 3
PlaceCap == 80
DefaultConcurrency == 6
ConcurrencyCap == 10

Min(a, b) == IF a < b THEN a ELSE b
Max(a, b) == IF a > b THEN a ELSE b

\* uniqStrings: trimmed, blanks dropped, the first of equal keys kept.
RECURSIVE uniqStringsFrom(_, _)
uniqStringsFrom(list, acc) ==
  IF list = <<>> THEN acc
  ELSE LET key == Trim(list[1])
       IN IF key = "" \/ key \in Range(acc) THEN uniqStringsFrom(Tail(list), acc)
          ELSE uniqStringsFrom(Tail(list), Append(acc, key))

uniqStrings(list) == uniqStringsFrom(list, <<>>)

PlaceNames == <<"Zoo", "Pier", "Cafe A", "Dock", "Eden", "Arcade", "Museum">>

\* args.places: n distinct names, alone or with blanks and respelt repeats.
PlaceArgs ==
  LET names(n) == SubSeq(PlaceNames, 1, n)
  IN {names(n) : n \in 0..MaxPlaces}
       \cup {<<"">> \o names(n) \o <<" " \o PlaceNames[1], PlaceNames[n] \o " ">> : n \in 1..MaxPlaces}

\* args.concurrency: undefined, or a number.
ConcurrencyArgs == {Null} \cup {<<c>> : c \in 0..MaxConcurrencyArg} \cup {<<ConcurrencyCap + 2>>}

\* Faulty variant of the loop head: the cursor is read, and advanced only
\* after the await.
workerReadsThenAwaits(w, cursor, ws, taken) ==
  IF cursor < Len(places)
  THEN [idx |-> cursor,
        workers |-> [ws EXCEPT ![w] = [at |-> "awaiting", k |-> cursor + 1]],
        attempts |-> [taken EXCEPT ![cursor + 1] = Append(@, w)]]
  ELSE [idx |-> cursor, workers |-> [ws EXCEPT ![w] = [at |-> "done", k |-> 0]],
        attempts |-> taken]

\* while (idx < places.length) { const name = places[idx++]; ... await ...
\* Worker w at the head of its loop, up to its next await or to its end.
worker(w, cursor, ws, taken) ==
  IF cursor < Len(places)
  THEN [idx |-> cursor + 1,
        workers |-> [ws EXCEPT ![w] = [at |-> "awaiting", k |-> cursor + 1]],
        attempts |-> [taken EXCEPT ![cursor + 1] = Append(@, w)]]
  ELSE [idx |-> cursor, workers |-> [ws EXCEPT ![w] = [at |-> "done", k |-> 0]],
        attempts |-> taken]

\* Array.from({ length: concurrency }, () => worker()): the workers are
\* started one after the other, each running to its first await.
RECURSIVE startWorkers(_, _)
startWorkers(w, st) ==
  IF w > concurrency THEN st
  ELSE startWorkers(w + 1, worker(w, st.idx, st.workers, st.attempts))

PoolInit ==
  /\ RunIdle("pool", "start")
  /\ ParseIdle /\ CacheIdle /\ OrderIdle
  /\ \E list \in PlaceArgs : places = SubSeq(uniqStrings(list), 1, Min(Len(uniqStrings(list)), PlaceCap))
  /\ \E c \in ConcurrencyArgs :
       concurrency = Max(1, Min(IF c = Null THEN DefaultConcurrency ELSE c[1], ConcurrencyCap))
  /\ idx = 0
  /\ workers = <<>>
  /\ out = {}
  /\ attempts = <<>>

\* All workers have ended: Promise.all resolves and out is returned.
PoolReturns(ws) ==
  IF \A w \in DOMAIN ws : ws[w].at = "done"
  THEN pc' = "returned" /\ result' = [media |-> out']
  ELSE pc' = "running" /\ UNCHANGED result

\* Lines 256-272, up to the await of Promise.all.
StartPool ==
  /\ entry = "pool"
  /\ pc = "start"
  /\ LET st == startWorkers(1, [idx |-> 0,
                                 workers |-> [w \in 1..concurrency |-> [at |-> "new", k |-> 0]],
                                 attempts |-> [k \in 1..Len(places) |-> <<>>]])
     IN /\ idx' = st.idx
        /\ workers' = st.workers
        /\ attempts' = st.attempts
        /\ out' = out
        /\ PoolReturns(st.workers)
  /\ UNCHANGED <<parseVars, cacheVars, orderVars, places, concurrency, failed, batches,
                 candidates, response, entry, resume, trip, allowed, itinerary, validation,
                 i, calls, reviseArgs, validated, lastObj, error>>

\* resolvePlaceMedia of worker w settles (media, null, or an exception, which
\* the worker swallows); the worker goes round its loop.
ResolutionSettles(w, outcome) ==
  /\ entry = "pool"
  /\ pc = "running"
  /\ workers[w].at = "awaiting"
  /\ out' = IF outcome = "media" THEN out \cup {places[workers[w].k]} ELSE out
  /\ failed' = IF outcome = "throws" THEN failed \cup {workers[w].k} ELSE failed
  /\ settled' = Append(settled, workers[w].k)
  /\ LET st == worker(w, idx, workers, attempts)
     IN /\ idx' = st.idx
        /\ workers' = st.workers
        /\ attempts' = st.attempts
        /\ PoolReturns(st.workers)
  /\ UNCHANGED <<parseVars, cacheVars, slots, found, places, concurrency, batches,
                 candidates, response, entry, resume, trip, allowed, itinerary, validation,
                 i, calls, reviseArgs, validated, lastObj, error>>

PoolNext ==
  \/ StartPool
  \/ \E w \in DOMAIN workers, outcome \in {"media", "null", "throws"} : ResolutionSettles(w, outcome)

PoolSpec == PoolInit /\ [][PoolNext]_vars

\* The workers with a resolution in flight.
InFlight == {w \in DOMAIN workers : workers[w].at = "awaiting"}

\* How often position k occurs in a sequence of positions.
Occurrences(seq, k) == Cardinality({n \in 1..Len(seq) : seq[n] = k})

\* C27: in resolvePlacesMedia, under every interleaving of the workers, each
\* of the deduplicated place names (at most 80) is taken from the shared
\* cursor by exactly one worker and resolved exactly once, none skipped and
\* none resolved twice, also when resolutions throw; the function returns only
\* after every place has been attempted, and at most `concurrency` (1 to 10)
\* resolutions are in flight at any time.
C27_EachPlaceOnce ==
  (entry = "pool" /\ pc # "start") =>
    /\ Len(places) <= PlaceCap
    /\ \A a, b \in 1..Len(places) : places[a] = places[b] => a = b
    /\ concurrency \in 1..ConcurrencyCap
    /\ Cardinality(InFlight) <= concurrency
    /\ \A k \in 1..Len(places) :
         /\ Len(attempts[k]) = (IF k <= idx THEN 1 ELSE 0)
         /\ Occurrences(settled, k)
              = (IF k <= idx /\ ~\E w \in InFlight : workers[w].k = k THEN 1 ELSE 0)
         /\ Cardinality({w \in InFlight : workers[w].k = k}) <= 1
    /\ \A w \in InFlight : attempts[workers[w].k] = <<w>>
    /\ pc = "returned" =>
         /\ idx = Len(places)
         /\ InFlight = {}
         /\ \A k \in 1..Len(places) : Len(attempts[k]) = 1 /\ Occurrences(settled, k) = 1

\* Four places, two workers, a resolution threw, and a later place settled
\* before an earlier one.
C27_Witness ==
  /\ entry = "pool"
  /\ pc = "returned"
  /\ Len(places) = 4
  /\ concurrency = 2
  /\ failed # {}
  /\ settled = <<2, 3, 1, 4>>
  /\ attempts[3] = <<2>>
  /\ attempts[4] = <<2>>

(***************************************************************************)
(* cache.ts: TtlCache                                                      *)
(***************************************************************************)

MaxClock == 3
MaxTtl == 1

\* constructor(private defaultTtlMs: number)
defaultTtlMs == 2

CacheKeys == {"cand:Paris", "cand:Rome"}
CacheValues == {"a", "b"}

\* ttlMs: undefined, or a number.
TtlArgs == {Null} \cup {<<t>> : t \in 0..MaxTtl}

\* get gave undefined.
Miss == <<>>
Hit(v) == <<v>>

\* Map.prototype.delete
MapDelete(m, key) == [k \in DOMAIN m \ {key} |-> m[k]]

\* Map.prototype.set
MapSet(m, key, e) == [k \in DOMAIN m \cup {key} |-> IF k = key THEN e ELSE m[k]]

CacheInit ==
  /\ RunIdle("cache", "ready")
  /\ ParseIdle /\ PoolIdle /\ OrderIdle
  /\ map = <<>>
  /\ now = 0
  /\ lastSet = [k \in CacheKeys |-> <<>>]
  /\ got = <<>>

\* Date.now() moves on.
Tick ==
  /\ entry = "cache"
  /\ now < MaxClock
  /\ now' = now + 1
  /\ got' = <<>>
  /\ UNCHANGED <<map, lastSet>>

\* Faulty variant: an entry is expired from its expiry time on.
getExpiredAtExpiry(key) ==
  /\ entry = "cache"
  /\ IF key \notin DOMAIN map
     THEN got' = [key |-> key, result |-> Miss] /\ UNCHANGED map
     ELSE IF now >= map[key].expiresAt
     THEN got' = [key |-> key, result |-> Miss] /\ map' = MapDelete(map, key)
     ELSE got' = [key |-> key, result |-> Hit(map[key].value)] /\ UNCHANGED map
  /\ UNCHANGED <<now, lastSet>>

\* get<T>(key: string): T | undefined
get(key) ==
  /\ entry = "cache"
  /\ IF key \notin DOMAIN map
     THEN got' = [key |-> key, result |-> Miss] /\ UNCHANGED map
     ELSE IF now > map[key].expiresAt
     THEN got' = [key |-> key, result |-> Miss] /\ map' = MapDelete(map, key)
     ELSE got' = [key |-> key, result |-> Hit(map[key].value)] /\ UNCHANGED map
  /\ UNCHANGED <<now, lastSet>>

\* set<T>(key: string, value: T, ttlMs?: number)
set(key, value, ttlMs) ==
  /\ entry = "cache"
  /\ LET expiresAt == now + (IF ttlMs = Null THEN defaultTtlMs ELSE ttlMs[1])
     IN map' = MapSet(map, key, [value |-> value, expiresAt |-> expiresAt])
  /\ lastSet' = [lastSet EXCEPT ![key] = <<[value |-> value, at |-> now, ttlMs |-> ttlMs]>>]
  /\ got' = <<>>
  /\ UNCHANGED now

CacheNext ==
  /\ \/ Tick
     \/ \E key \in CacheKeys : get(key)
     \/ \E key \in CacheKeys, value \in CacheValues, ttlMs \in TtlArgs : set(key, value, ttlMs)
  /\ UNCHANGED <<parseVars, poolVars, orderVars, failed, batches, candidates, response, entry,
                 pc, resume, trip, allowed, itinerary, validation, i, calls, reviseArgs,
                 validated, lastObj, result, error>>

CacheSpec == CacheInit /\ [][CacheNext]_vars

\* The expiry of the latest set of a key: its time plus its TTL (the default
\* TTL when none was given).
ExpiryOfLatestSet(key) ==
  lastSet[key][1].at
    + (IF lastSet[key][1].ttlMs = Null THEN defaultTtlMs ELSE lastSet[key][1].ttlMs[1])

\* The latest set of the key has happened and the time is not past its expiry.
Live(key) == lastSet[key] # <<>> /\ now <= ExpiryOfLatestSet(key)

\* The entry of a key, if any.
EntryOf(m, key) == IF key \in DOMAIN m THEN <<m[key]>> ELSE <<>>

\* C28: for set and get calls at non-decreasing clock times, get(k) returns a
\* value exactly when the latest set(k) has happened and the time is not past
\* its expiry (set time plus TTL), and then the value of that set; a get past
\* expiry misses and deletes the entry; entries are deleted only by such a get
\* on their own key; a get or set on one key changes nothing for another key.
C28_LazyExpiry ==
  /\ [](got # <<>> =>
          /\ got.result # Miss <=> Live(got.key)
          /\ Live(got.key) => got.result = Hit(lastSet[got.key][1].value)
          /\ ~Live(got.key) => got.key \notin DOMAIN map)
  /\ [][\A key \in CacheKeys :
          /\ (key \in DOMAIN map /\ key \notin DOMAIN map') =>
               /\ got' = [key |-> key, result |-> Miss]
               /\ now > map[key].expiresAt
               /\ lastSet' = lastSet
          /\ EntryOf(map', key) # EntryOf(map, key) =>
               \/ got' # <<>> /\ got'.key = key
               \/ lastSet'[key] # lastSet[key]
          /\ lastSet'[key] # lastSet[key] =>
               \A other \in CacheKeys \ {key} :
                 EntryOf(map', other) = EntryOf(map, other)]_vars
  /\ [](\A key \in DOMAIN map : lastSet[key] # <<>> /\ map[key].expiresAt = ExpiryOfLatestSet(key))

\* A get at the very expiry time of a zero-TTL entry hits while the other key
\* has expired and been deleted.
C28_Witness ==
  /\ entry = "cache"
  /\ got = [key |-> "cand:Rome", result |-> Hit("b")]
  /\ lastSet["cand:Rome"] = <<[value |-> "b", at |-> now, ttlMs |-> <<0>>]>>
  /\ lastSet["cand:Paris"] # <<>>
  /\ "cand:Paris" \notin DOMAIN map

(***************************************************************************)
(* The meal format, from the allowed list to the validator and back        *)
(***************************************************************************)

\* Restaurant candidates whose names hold the separators of the meal format.
RoundTripCandidates ==
  <<Cand("Green Table", "restaurant"), Cand(" Eden ", "restaurant"),
    Cand("Cafe - Bar", "restaurant"), Cand("Deli: Central", "restaurant"),
    Cand("Zoo", "attraction"), Cand("Pier", "attraction")>>

Dishes ==
  {"tofu", "tofu - spicy", "veg: curry", "paneer (Vegetarian)", "beef", "", " "}

\* "Lunch: R - D"
MealOf(type, restaurant, dish) == type \o ": " \o restaurant \o " - " \o dish

RoundTripInit ==
  /\ entry = "validate"
  /\ pc = "call"
  /\ resume = "none"
  /\ trip \in {t \in VTrips : t.tripLengthDays = 1 /\ t.pace = "relaxed"}
  /\ candidates = RoundTripCandidates
  /\ allowed = allowedListsFromCandidates(RoundTripCandidates)
  /\ \E r1, r2 \in Range(allowedListsFromCandidates(RoundTripCandidates).allowedRestaurants) :
       \E d \in Dishes :
         itinerary = ItineraryOf(<<DayOf(1, DayBody(GoodBlocks(2),
                                                    <<MealOf("Lunch", r1, d),
                                                      MealOf("Dinner", r2, "lentil soup")>>,
                                                    GoodNotes))>>, <<>>)
  /\ validation = NoValidation
  /\ i = 0
  /\ calls = NoCalls
  /\ reviseArgs = NoArgs
  /\ validated = NoItinerary
  /\ lastObj = NoObj
  /\ result = NoResult
  /\ error = "none"
  /\ failed = {}
  /\ batches = <<>>
  /\ response = <<>>
  /\ AuxIdle

RoundTripSpec == RoundTripInit /\ [][ValidatorCall]_vars

\* C30: for every name R of allowedRestaurants and every dish text D, the
\* validation of the meal "Lunch: R - D" reports neither an "Invalid
\* restaurant" nor a "Meal format invalid" violation: every allowed restaurant
\* can be used in a meal that validates, also a name that holds " - " or a colon.
C30_MealRoundTrip ==
  Returned =>
    \A n \in 1..Len(validation.violations) :
      /\ ~StartsWith(validation.violations[n], "Invalid restaurant in meals")
      /\ ~StartsWith(validation.violations[n], "Meal format invalid")

=============================================================================
